---- MODULE Spec2Model ----
(***************************************************************************)
(* Workspace session subsystem of the Tridecco game-board IDE.             *)
(*                                                                         *)
(* The session controller is the editor page script                        *)
(* (src/unnamed/part_011): module-level session variables, the autosave    *)
(* timer, the script-tag loader of the board library, the toolbar, the     *)
(* file-picker modal and the file input.  The document store is            *)
(* FileSystem (src/unnamed/part_000), the home page is                     *)
(* src/unnamed/part_010.                                                   *)
(*                                                                         *)
(* JavaScript runs one event-loop task at a time: every action below is    *)
(* one task (an event handler, a timer callback, a script load/error       *)
(* callback together with the promise continuations it releases, which    *)
(* run as microtasks before the next task).                                *)
(*                                                                         *)
(* The Monaco widget is taken to be created (Editor.editorInstance is set  *)
(* before the editor page is first shown).  model.setValue notifies the    *)
(* content-change callback synchronously; inside resetEditorState and      *)
(* loadSpecificIdeFile every field that callback writes (isDirty, the      *)
(* autosave timer) is overwritten by the statements that follow            *)
(* editor.setContent, so setContent is modelled by its net effect.         *)
(***************************************************************************)
EXTENDS Integers, FiniteSets, Sequences, TLC

(***************************************************************************)
(* Bounds of the model.                                                    *)
(***************************************************************************)
\* Number of record identifiers _generateUniqueId can produce.
MaxFiles == 2
\* Date.now() runs from 0 to MaxClock.
MaxClock == 2
\* Number of random parts _generateUniqueId can draw.
NumRandoms == 1

\* The longest content of a share payload.
MaxLen == 2
\* The room the browser leaves in localStorage, in records, before setItem
\* throws QuotaExceededError: one record in Spec and SpecTraced, so that a
\* second save-as fails; SpecRoomy has room for MaxFiles records.
Quota == 1
\* Number of distinct non-default editor texts the user can type.
NumContents == 1
\* How many of the seven supported versions (newest first) are modelled.
NumVersions == 2
\* Size of the browser's timer table.
MaxTimers == 2
\* Amount of time (ms) one Tick lets pass at most.
TimeStep == 1000

(***************************************************************************)
(* Program constants.                                                      *)
(***************************************************************************)
AUTOSAVE_DELAY == 2000

\* null for a record id (currentFileId, the handoff key) and a timer handle.
NullId == 0
NullHandle == 0
\* null / undefined for a version string, and the unset name.
NullVersion == "null"

AllSupportedVersions ==
  <<"0.3.1", "0.3.0", "0.2.3", "0.2.2", "0.2.1", "0.2.0", "0.1.1">>

SUPPORTED_TRIDECCO_VERSIONS == SubSeq(AllSupportedVersions, 1, NumVersions)

Supported == {SUPPORTED_TRIDECCO_VERSIONS[i] : i \in 1..NumVersions}

LATEST_TRIDECCO_VERSION == SUPPORTED_TRIDECCO_VERSIONS[1]

\* A version string that is not in SUPPORTED_TRIDECCO_VERSIONS.
UnsupportedVersion == "9.9.9"

\* The text resetEditorState puts in the editor by default.
DEFAULT_EDITOR_CONTENT == 0

Contents == 0..NumContents
FileIds == 1..MaxFiles
Handles == 1..MaxTimers

(***************************************************************************)
(* File names.  A name is a sequence of tokens; ".js" and " " are tokens   *)
(* of their own, so String.endsWith('.js'), startsWith('Untitled from')    *)
(* and trim() are computed on the name and not assumed.                    *)
(***************************************************************************)
Untitled == <<"Untitled">>
UntitledFrom == "Untitled from "
SharedFileName == <<"Shared", " ", "File">>
\* What window.prompt returns when the user cancels.
PromptNull == <<"<null>">>

EndsWithJs(name) == Len(name) > 0 /\ name[Len(name)] = ".js"

StartsWithUntitledFrom(name) == Len(name) > 0 /\ name[1] = UntitledFrom

\* !fileName : null or the empty string.
IsFalsyName(name) == name = PromptNull \/ name = <<>>

\* !fileName.trim() : nothing but white space.
IsBlankName(name) == \A i \in 1..Len(name) : name[i] = " "

\* if (!fileName.endsWith('.js')) fileName += '.js'
EnsureJs(name) == IF EndsWithJs(name) THEN name ELSE name \o <<".js">>

\* What the user may type into the "save in IDE" prompt.
PromptResults == {PromptNull, <<>>, <<" ">>, <<"main">>}

\* The files the user may pick in the file dialog.
ComputerFiles == {[name |-> <<"main", ".js">>, content |-> NumContents]}

(***************************************************************************)
(* The document store as the editor page sees it: one slot per record id.  *)
(***************************************************************************)
AbsentFile == [kind |-> "absent", name |-> <<>>, content |-> 0,
               boardVersion |-> NullVersion]

\* A key whose stored bytes _safeParseJson cannot decode: loadFile throws.
CorruptFile == [kind |-> "corrupt", name |-> <<>>, content |-> 0,
                boardVersion |-> NullVersion]

FileData(name, content, boardVersion) ==
  [kind |-> "file", name |-> name, content |-> content,
   boardVersion |-> boardVersion]

EmptyStore == [id \in FileIds |-> AbsentFile]

\* localStorage without a key.
NoItems == <<>>

\* No FileSystem call has been made.
NoCall == [op |-> "none", ok |-> TRUE, error |-> "none"]

(***************************************************************************)
(* State.                                                                  *)
(***************************************************************************)
VARIABLES
  currentFileId,        \* let currentFileId: the bound record, or NullId
  currentFileName,      \* let currentFileName
  isDirty,              \* let isDirty
  autosaveTimeoutId,    \* let autosaveTimeoutId: a timer handle, or NullHandle
  currentBoardVersion,  \* let currentBoardVersion: a version, or NullVersion
  isBoardLoading,       \* let isBoardLoading
  selectorValue,        \* trideccoVersionSelector.value
  selectorDisabled,     \* trideccoVersionSelector.disabled
  content,              \* the text in the editing widget
  timers,               \* the browser's pending timers: {[handle, remaining]}
  scripts,              \* script tags whose load has neither ended nor failed
  store,                \* the records in localStorage under the fs prefix
  openRequest,          \* localStorage[SELECTED_FILE_KEY], or NullId
  shareParam,           \* the "data" query parameter of the page URL
  modal,                \* ideFileModal: "hidden", or the mode it is shown in
  fileDialog,           \* the file dialog of fileInputComputer is open
  reader,               \* the FileReader that is reading a picked file
  page,                 \* pages.currentPage: "none", "home" or "editor"
  capacity,             \* the number of records localStorage has room for
  \* The document store on its own, as its callers drive it.
  localStorage,         \* window.localStorage: the stored value of each key
  clock,                \* what Date.now() returns
  call,                 \* history: the last FileSystem call and its outcome
  \* The share codec on its own, and the page that opens a share link.
  data,                 \* compile: the object it was called with
  encodedString,        \* the token: what compile returned, or a link carries
  originalData,         \* what decompile returned
  loadedFromUrl,        \* editorPageOnOpen: let loadedFromUrl
  \* History variables: they record what happened and steer nothing.
  last,                 \* the handler that ran last and the branch it took
  traced,               \* whether navConfirmed and lastLoaded are recorded
  navConfirmed,         \* the user confirmed the prompt of the pending load
  lastLoaded,           \* the version of the last script load that succeeded
  deb,                  \* progress of an edit, edit, autosave sequence
  sinceEdit,            \* time since the last content change, capped
  \* The environment.
  userGone              \* the user has stopped acting on the page

progVars ==
  <<currentFileId, currentFileName, isDirty, autosaveTimeoutId,
    currentBoardVersion, isBoardLoading, selectorValue, selectorDisabled,
    content, timers, scripts, store, openRequest, shareParam, modal,
    fileDialog, reader, page, capacity>>

histVars == <<last, traced, navConfirmed, lastLoaded, deb, sinceEdit>>

fsVars == <<localStorage, clock, call>>

codecVars == <<data, encodedString, originalData, loadedFromUrl>>

vars == <<progVars, histVars, fsVars, codecVars, userGone>>

\* A history value is recorded in the behaviours that trace it, and stays at
\* its initial value in the others.
Traced(new, old) == IF traced THEN new ELSE old

\* The program state as one value, so that a handler is a function on it.
Cur ==
  [currentFileId |-> currentFileId, currentFileName |-> currentFileName,
   isDirty |-> isDirty, autosaveTimeoutId |-> autosaveTimeoutId,
   currentBoardVersion |-> currentBoardVersion,
   isBoardLoading |-> isBoardLoading, selectorValue |-> selectorValue,
   selectorDisabled |-> selectorDisabled, content |-> content,
   timers |-> timers, scripts |-> scripts, store |-> store,
   openRequest |-> openRequest, shareParam |-> shareParam, modal |-> modal,
   fileDialog |-> fileDialog, reader |-> reader, page |-> page]

\* The next state is s.
Becomes(s) ==
  /\ currentFileId' = s.currentFileId
  /\ currentFileName' = s.currentFileName
  /\ isDirty' = s.isDirty
  /\ autosaveTimeoutId' = s.autosaveTimeoutId
  /\ currentBoardVersion' = s.currentBoardVersion
  /\ isBoardLoading' = s.isBoardLoading
  /\ selectorValue' = s.selectorValue
  /\ selectorDisabled' = s.selectorDisabled
  /\ content' = s.content
  /\ timers' = s.timers
  /\ scripts' = s.scripts
  /\ store' = s.store
  /\ openRequest' = s.openRequest
  /\ shareParam' = s.shareParam
  /\ modal' = s.modal
  /\ fileDialog' = s.fileDialog
  /\ reader' = s.reader
  /\ page' = s.page

NoShare == [kind |-> "none", content |-> 0, version |-> NullVersion]
NoReader == [kind |-> "none", name |-> <<>>, content |-> 0]

(***************************************************************************)
(* Timers: window.setTimeout / clearTimeout.                               *)
(***************************************************************************)
ClearTimeout(table, handle) == {t \in table : t.handle # handle}

\* Handles are never reused while a timer or a variable still holds them.
FreshHandle(s) ==
  CHOOSE h \in Handles :
    /\ h \notin {t.handle : t \in s.timers} \cup {s.autosaveTimeoutId}
    /\ \A g \in Handles :
         g \notin {t.handle : t \in s.timers} \cup {s.autosaveTimeoutId}
           => h <= g

SetTimeout(table, handle, delay) ==
  table \cup {[handle |-> handle, remaining |-> delay]}

(***************************************************************************)
(* FileSystem, as used by the editor page.  storageOk is localStorage      *)
(* accepting the write (no QuotaExceededError).                            *)
(***************************************************************************)
\* FileSystem.loadFile: null for a missing record.
loadFile(files, fileId) == files[fileId]

\* FileSystem.createFile: the store after the call, or a throw.
createFile(files, fileId, name, text, boardVersion, storageOk) ==
  IF name = <<>> \/ ~storageOk
    THEN [ok |-> FALSE, files |-> files]
    ELSE [ok |-> TRUE,
          files |-> [files EXCEPT ![fileId] = FileData(name, text, boardVersion)]]

\* FileSystem.updateFile with the patch {content, boardVersion}.
updateFile(files, fileId, text, boardVersion, storageOk) ==
  IF files[fileId].kind # "file" \/ ~storageOk
    THEN [ok |-> FALSE, files |-> files]
    ELSE [ok |-> TRUE,
          files |-> [files EXCEPT ![fileId].content = text,
                                  ![fileId].boardVersion = boardVersion]]

\* FileSystem._generateUniqueId: the ids a create may be given.  An id is
\* the time in milliseconds joined with nine random base-36 digits; it is
\* taken to differ from every id in use.  Ids are opaque (the code only
\* compares them), so of the unused ids the least stands for all of them.
GenerateUniqueId(files) ==
  {id \in FileIds : /\ files[id].kind = "absent"
                    /\ \A other \in FileIds :
                         files[other].kind = "absent" => id <= other}

(***************************************************************************)
(* The session controller's functions, each a function on the state.       *)
(***************************************************************************)
\* updateSaveStatus: cancels the pending autosave, then writes the status.
updateSaveStatus(s) ==
  [s EXCEPT !.timers = ClearTimeout(s.timers, s.autosaveTimeoutId),
            !.autosaveTimeoutId = NullHandle]

\* a || b || c on version strings (the empty string and null are falsy).
FirstTruthy(a, b, c) ==
  IF a # NullVersion /\ a # "" THEN a
  ELSE IF b # NullVersion /\ b # "" THEN b
  ELSE c

\* The script tag loadTrideccoVersion appends.  awaited: the caller is
\* handleVersionChange, which resumes on success.  boundTo records the
\* binding at the time of the request; the code keeps no such field.
ScriptTag(s, version, awaited) ==
  [version |-> version, awaited |-> awaited, boundTo |-> s.currentFileId]

\* A faulty loadTrideccoVersion that starts a load while one is in flight.
loadTrideccoVersionUnguarded(s, version, awaited) ==
  IF version \notin Supported THEN s
  ELSE [s EXCEPT !.isBoardLoading = TRUE,
                 !.selectorDisabled = TRUE,
                 !.scripts = @ \cup {ScriptTag(s, version, awaited)}]

\* loadTrideccoVersion: rejects, or appends a script tag for the version.
\* awaited: the caller is handleVersionChange, which resumes on success.
loadTrideccoVersion(s, version, awaited) ==
  IF s.isBoardLoading THEN s
  ELSE IF version \notin Supported THEN s
  ELSE [s EXCEPT !.isBoardLoading = TRUE,
                 !.selectorDisabled = TRUE,
                 !.scripts = @ \cup {ScriptTag(s, version, awaited)}]

\* A faulty triggerAutosave that arms a new timer and leaves the old one
\* pending.
triggerAutosaveKeepsOld(s) ==
  IF s.currentFileId = NullId \/ ~s.isDirty \/ s.isBoardLoading THEN s
  ELSE LET h == FreshHandle(s)
       IN [s EXCEPT !.timers = SetTimeout(@, h, AUTOSAVE_DELAY),
                    !.autosaveTimeoutId = h]

\* triggerAutosave
triggerAutosave(s) ==
  IF s.currentFileId = NullId \/ ~s.isDirty \/ s.isBoardLoading THEN s
  ELSE LET s1 == updateSaveStatus(
                   [s EXCEPT !.timers = ClearTimeout(@, s.autosaveTimeoutId)])
           h == FreshHandle(s1)
       IN [s1 EXCEPT !.timers = SetTimeout(@, h, AUTOSAVE_DELAY),
                     !.autosaveTimeoutId = h]

\* performAutosave: "skipped", "saved" or "failed".
performAutosaveOutcome(s, storageOk) ==
  IF s.currentFileId = NullId \/ ~s.isDirty \/ s.isBoardLoading THEN "skipped"
  ELSE IF updateFile(s.store, s.currentFileId, s.content,
                     FirstTruthy(s.selectorValue, s.currentBoardVersion,
                                 LATEST_TRIDECCO_VERSION), storageOk).ok
    THEN "saved"
  ELSE "failed"

\* A faulty performAutosave that does not look at isBoardLoading.
performAutosaveWhileLoading(s, storageOk) ==
  IF s.currentFileId = NullId \/ ~s.isDirty
    THEN updateSaveStatus(s)
  ELSE LET versionToSave ==
             FirstTruthy(s.selectorValue, s.currentBoardVersion,
                         LATEST_TRIDECCO_VERSION)
           r == updateFile(s.store, s.currentFileId, s.content, versionToSave,
                           storageOk)
       IN IF r.ok
            THEN [updateSaveStatus(
                    [s EXCEPT !.store = r.files,
                              !.isDirty = FALSE,
                              !.currentBoardVersion = versionToSave])
                  EXCEPT !.autosaveTimeoutId = NullHandle]
            ELSE [updateSaveStatus(s) EXCEPT !.autosaveTimeoutId = NullHandle]

\* A faulty performAutosave that saves the newest version, not the selected.
performAutosaveLatestVersion(s, storageOk) ==
  IF s.currentFileId = NullId \/ ~s.isDirty \/ s.isBoardLoading
    THEN updateSaveStatus(s)
  ELSE LET versionToSave == LATEST_TRIDECCO_VERSION
           r == updateFile(s.store, s.currentFileId, s.content, versionToSave,
                           storageOk)
       IN IF r.ok
            THEN [updateSaveStatus(
                    [s EXCEPT !.store = r.files,
                              !.isDirty = FALSE,
                              !.currentBoardVersion = versionToSave])
                  EXCEPT !.autosaveTimeoutId = NullHandle]
            ELSE [updateSaveStatus(s) EXCEPT !.autosaveTimeoutId = NullHandle]

\* A faulty performAutosave that schedules a retry when the update throws.
performAutosaveRetries(s, storageOk) ==
  IF s.currentFileId = NullId \/ ~s.isDirty \/ s.isBoardLoading
    THEN updateSaveStatus(s)
  ELSE LET versionToSave ==
             FirstTruthy(s.selectorValue, s.currentBoardVersion,
                         LATEST_TRIDECCO_VERSION)
           r == updateFile(s.store, s.currentFileId, s.content, versionToSave,
                           storageOk)
       IN IF r.ok
            THEN [updateSaveStatus(
                    [s EXCEPT !.store = r.files,
                              !.isDirty = FALSE,
                              !.currentBoardVersion = versionToSave])
                  EXCEPT !.autosaveTimeoutId = NullHandle]
            ELSE triggerAutosave(updateSaveStatus(s))

\* performAutosave, the callback of the autosave timer.
performAutosave(s, storageOk) ==
  IF s.currentFileId = NullId \/ ~s.isDirty \/ s.isBoardLoading
    THEN updateSaveStatus(s)
  ELSE LET versionToSave ==
             FirstTruthy(s.selectorValue, s.currentBoardVersion,
                         LATEST_TRIDECCO_VERSION)
           r == updateFile(s.store, s.currentFileId, s.content, versionToSave,
                           storageOk)
       IN IF r.ok
            THEN [updateSaveStatus(
                    [s EXCEPT !.store = r.files,
                              !.isDirty = FALSE,
                              !.currentBoardVersion = versionToSave])
                  EXCEPT !.autosaveTimeoutId = NullHandle]
            ELSE [updateSaveStatus(s) EXCEPT !.autosaveTimeoutId = NullHandle]

\* A version change that does not mark a bound session dirty.
handleVersionChangeResumeClean(s) == updateSaveStatus(s)

\* The part of handleVersionChange that runs after the awaited load succeeded.
handleVersionChangeResume(s) ==
  IF s.currentFileId # NullId
    THEN triggerAutosave(updateSaveStatus([s EXCEPT !.isDirty = TRUE]))
    ELSE updateSaveStatus(s)

\* handleVersionChange up to its await (the browser has set selector.value).
handleVersionChange(s) ==
  IF s.isBoardLoading THEN s
  ELSE IF s.selectorValue = s.currentBoardVersion THEN s
  ELSE loadTrideccoVersion(s, s.selectorValue, TRUE)

\* scriptTag.onload, and the continuation of handleVersionChange it releases.
scriptOnLoad(s, tag) ==
  LET s1 == [s EXCEPT !.scripts = @ \ {tag},
                      !.currentBoardVersion = tag.version,
                      !.selectorValue = tag.version,
                      !.isBoardLoading = FALSE,
                      !.selectorDisabled = FALSE]
  IN IF tag.awaited THEN handleVersionChangeResume(s1) ELSE s1

\* A faulty scriptTag.onerror that takes the failed version for the current.
scriptOnErrorAdoptsVersion(s, tag) ==
  [s EXCEPT !.scripts = @ \ {tag},
            !.isBoardLoading = FALSE,
            !.selectorDisabled = FALSE,
            !.currentBoardVersion = tag.version]

\* A faulty scriptTag.onerror that leaves the loading flag set.
scriptOnErrorStaysLoading(s, tag) ==
  [s EXCEPT !.scripts = @ \ {tag},
            !.selectorValue =
              IF s.currentBoardVersion # NullVersion
                THEN s.currentBoardVersion ELSE @]

\* scriptTag.onerror; the callers' catch handlers only log.
scriptOnError(s, tag) ==
  [s EXCEPT !.scripts = @ \ {tag},
            !.isBoardLoading = FALSE,
            !.selectorDisabled = FALSE,
            !.selectorValue =
              IF s.currentBoardVersion # NullVersion
                THEN s.currentBoardVersion ELSE @]

\* A reset that loads the newest version whatever version it is given.
resetEditorStateNewest(s, fileName, text, boardVersion) ==
  LET s1 == [s EXCEPT !.openRequest = NullId,
                      !.content = text,
                      !.currentFileId = NullId,
                      !.currentFileName = fileName,
                      !.isDirty = FALSE,
                      !.selectorValue = LATEST_TRIDECCO_VERSION]
  IN updateSaveStatus(loadTrideccoVersion(s1, LATEST_TRIDECCO_VERSION, FALSE))

\* A faulty resetEditorState that leaves a pending autosave timer alone.
resetEditorStateKeepsTimer(s, fileName, text, boardVersion) ==
  LET versionToLoad ==
        IF boardVersion \in Supported THEN boardVersion
        ELSE LATEST_TRIDECCO_VERSION
      s1 == [s EXCEPT !.openRequest = NullId,
                      !.content = text,
                      !.currentFileId = NullId,
                      !.currentFileName = fileName,
                      !.isDirty = FALSE,
                      !.selectorValue = versionToLoad]
  IN loadTrideccoVersion(s1, versionToLoad, FALSE)

\* resetEditorState(fileName, content, boardVersion)
resetEditorState(s, fileName, text, boardVersion) ==
  LET versionToLoad ==
        IF boardVersion \in Supported THEN boardVersion
        ELSE LATEST_TRIDECCO_VERSION
      s1 == [s EXCEPT !.openRequest = NullId,
                      !.content = text,
                      !.currentFileId = NullId,
                      !.currentFileName = fileName,
                      !.isDirty = FALSE,
                      !.selectorValue = versionToLoad]
  IN updateSaveStatus(loadTrideccoVersion(s1, versionToLoad, FALSE))

\* An open that keeps the session as it is when the record cannot be loaded.
loadSpecificIdeFileKeepsSession(s, fileId) ==
  LET fileData == loadFile(s.store, fileId)
      versionToLoad ==
        IF fileData.boardVersion \in Supported THEN fileData.boardVersion
        ELSE LATEST_TRIDECCO_VERSION
      s1 == [s EXCEPT !.content = fileData.content,
                      !.currentFileId = fileId,
                      !.currentFileName = fileData.name,
                      !.isDirty = FALSE,
                      !.selectorValue = versionToLoad]
  IN IF fileData.kind # "file"
       THEN [s EXCEPT !.openRequest = NullId]
       ELSE [updateSaveStatus(loadTrideccoVersion(s1, versionToLoad, FALSE))
             EXCEPT !.openRequest = NullId]

\* An open that leaves the handoff key in localStorage when it succeeds.
loadSpecificIdeFileKeepsKey(s, fileId) ==
  LET fileData == loadFile(s.store, fileId)
      versionToLoad ==
        IF fileData.boardVersion \in Supported THEN fileData.boardVersion
        ELSE LATEST_TRIDECCO_VERSION
      s1 == [s EXCEPT !.content = fileData.content,
                      !.currentFileId = fileId,
                      !.currentFileName = fileData.name,
                      !.isDirty = FALSE,
                      !.selectorValue = versionToLoad]
  IN IF fileData.kind # "file"
       THEN resetEditorState(s, Untitled, DEFAULT_EDITOR_CONTENT,
                             LATEST_TRIDECCO_VERSION)
       ELSE updateSaveStatus(loadTrideccoVersion(s1, versionToLoad, FALSE))

\* loadSpecificIdeFile(fileId)
loadSpecificIdeFile(s, fileId) ==
  LET fileData == loadFile(s.store, fileId)
      versionToLoad ==
        IF fileData.boardVersion \in Supported THEN fileData.boardVersion
        ELSE LATEST_TRIDECCO_VERSION
      s1 == [s EXCEPT !.content = fileData.content,
                      !.currentFileId = fileId,
                      !.currentFileName = fileData.name,
                      !.isDirty = FALSE,
                      !.selectorValue = versionToLoad]
  IN IF fileData.kind # "file"
       THEN [resetEditorState(s, Untitled, DEFAULT_EDITOR_CONTENT,
                              LATEST_TRIDECCO_VERSION)
             EXCEPT !.openRequest = NullId]
       ELSE [updateSaveStatus(loadTrideccoVersion(s1, versionToLoad, FALSE))
             EXCEPT !.openRequest = NullId]

\* hideIdeFileModal
hideIdeFileModal(s) == [s EXCEPT !.modal = "hidden"]

\* showIdeFileModal(mode)
showIdeFileModal(s, mode) == [s EXCEPT !.modal = mode]

\* loadSelectedIdeFile(fileId); confirmed is the answer to its own prompt.
loadSelectedIdeFile(s, fileId, confirmed) ==
  LET s1 == hideIdeFileModal(s)
  IN IF s1.isDirty /\ ~confirmed THEN s1 ELSE loadSpecificIdeFile(s1, fileId)

\* loadSelectedFileAsTemplate(templateFileId)
loadSelectedFileAsTemplate(s, templateFileId) ==
  LET s1 == hideIdeFileModal(s)
      templateData == loadFile(s1.store, templateFileId)
  IN IF templateData.kind # "file" THEN s1
     ELSE resetEditorState(s1, <<UntitledFrom>> \o templateData.name,
                           templateData.content, LATEST_TRIDECCO_VERSION)

\* A save that writes over the bound record instead of creating one.
handleSaveToIDEInPlace(s, name, fileId, storageOk) ==
  LET versionToSave ==
        FirstTruthy(s.selectorValue, s.currentBoardVersion,
                    LATEST_TRIDECCO_VERSION)
      fileName == EnsureJs(name)
      target == IF s.currentFileId # NullId THEN s.currentFileId ELSE fileId
      s1 == updateSaveStatus(s)
      r == createFile(s1.store, target, fileName, s.content, versionToSave,
                      storageOk)
  IN IF IsFalsyName(name) THEN s
     ELSE IF IsBlankName(name) THEN s
     ELSE IF r.ok
       THEN [updateSaveStatus(
               [s1 EXCEPT !.store = r.files,
                          !.currentFileId = target,
                          !.currentFileName = fileName,
                          !.currentBoardVersion = versionToSave,
                          !.isDirty = FALSE])
             EXCEPT !.selectorValue = versionToSave]
     ELSE updateSaveStatus(s1)

\* A save that reports its status, clearing the pending autosave, before it
\* looks at the file name.
handleSaveToIDEStatusFirst(s, name, fileId, storageOk) ==
  LET versionToSave ==
        FirstTruthy(s.selectorValue, s.currentBoardVersion,
                    LATEST_TRIDECCO_VERSION)
      fileName == EnsureJs(name)
      s1 == updateSaveStatus(s)
      r == createFile(s1.store, fileId, fileName, s.content, versionToSave,
                      storageOk)
  IN IF IsFalsyName(name) THEN s1
     ELSE IF IsBlankName(name) THEN s1
     ELSE IF r.ok
       THEN [updateSaveStatus(
               [s1 EXCEPT !.store = r.files,
                          !.currentFileId = fileId,
                          !.currentFileName = fileName,
                          !.currentBoardVersion = versionToSave,
                          !.isDirty = FALSE])
             EXCEPT !.selectorValue = versionToSave]
     ELSE updateSaveStatus(s1)

\* handleSaveToIDE; name is what the prompt returned, fileId the new id.
handleSaveToIDE(s, name, fileId, storageOk) ==
  LET versionToSave ==
        FirstTruthy(s.selectorValue, s.currentBoardVersion,
                    LATEST_TRIDECCO_VERSION)
      fileName == EnsureJs(name)
      s1 == updateSaveStatus(s)
      r == createFile(s1.store, fileId, fileName, s.content, versionToSave,
                      storageOk)
  IN IF IsFalsyName(name) THEN s
     ELSE IF IsBlankName(name) THEN s
     ELSE IF r.ok
       THEN [updateSaveStatus(
               [s1 EXCEPT !.store = r.files,
                          !.currentFileId = fileId,
                          !.currentFileName = fileName,
                          !.currentBoardVersion = versionToSave,
                          !.isDirty = FALSE])
             EXCEPT !.selectorValue = versionToSave]
     ELSE updateSaveStatus(s1)

\* A faulty content-change callback that leaves a pending autosave as
\* scheduled (a throttle, not a debounce).
onContentChangeThrottled(s, text) ==
  LET s1 == [s EXCEPT !.content = text]
      s2 == IF ~s1.isDirty
              THEN updateSaveStatus([s1 EXCEPT !.isDirty = TRUE]) ELSE s1
  IN IF s2.currentFileId # NullId /\ ~s2.isBoardLoading /\ s2.timers = {}
       THEN triggerAutosave(s2) ELSE s2

\* A download that counts as a save: it clears the dirty flag.
handleSaveToComputerMarksSaved(s) ==
  updateSaveStatus([s EXCEPT !.isDirty = FALSE])

\* handleSaveToComputer: the text goes into a Blob that the browser
\* downloads, under the name the prompt gives or not at all; the session and
\* the store are not touched.
handleSaveToComputer(s) == s

\* A content change that leaves the dirty flag alone.
onContentChangeKeepsFlag(s, text) ==
  LET s1 == [s EXCEPT !.content = text]
  IN IF s1.currentFileId # NullId /\ ~s1.isBoardLoading
       THEN triggerAutosave(s1) ELSE s1

\* The callback registered with editor.onContentChange; text is the new text.
onContentChange(s, text) ==
  LET s1 == [s EXCEPT !.content = text]
      s2 == IF ~s1.isDirty
              THEN updateSaveStatus([s1 EXCEPT !.isDirty = TRUE]) ELSE s1
  IN IF s2.currentFileId # NullId /\ ~s2.isBoardLoading
       THEN triggerAutosave(s2) ELSE s2

\* The toolbar actions that replace or leave the document.
isLoadAction == {"load-ide", "load-computer", "new-empty", "new-template", "exit"}

\* The toolbar asks for confirmation before this action.
ToolbarPrompts(s, action) == s.isDirty /\ action \in isLoadAction

\* The toolbar's click listener.  in: the user's answers and the
\* environment's choices [confirmed, name, fileId, storageOk].
toolbarClick(s, action, in) ==
  LET s1 == IF ToolbarPrompts(s, action)
              THEN updateSaveStatus([s EXCEPT !.isDirty = FALSE]) ELSE s
  IN IF ToolbarPrompts(s, action) /\ ~in.confirmed THEN s
     ELSE CASE action = "load-ide" -> showIdeFileModal(s1, "load")
            [] action = "load-computer" -> [s1 EXCEPT !.fileDialog = TRUE]
            [] action = "new-empty" ->
                 resetEditorState(s1, Untitled, DEFAULT_EDITOR_CONTENT,
                                  LATEST_TRIDECCO_VERSION)
            [] action = "new-template" -> showIdeFileModal(s1, "template")
            [] action = "save-ide" ->
                 handleSaveToIDE(s1, in.name, in.fileId, in.storageOk)
            [] action = "save-computer" -> handleSaveToComputer(s1)
            [] action = "exit" ->
                 [s1 EXCEPT !.timers = ClearTimeout(@, s1.autosaveTimeoutId),
                            !.page = "home"]
            [] OTHER -> s1

\* editorPageOnOpen, run when the editor page is shown.
editorPageOnOpen(s) ==
  LET s1 == [s EXCEPT !.shareParam = NoShare]
  IN IF s.shareParam.kind = "ok"
       THEN resetEditorState(s1, SharedFileName, s.shareParam.content,
                             s.shareParam.version)
     ELSE IF s1.openRequest # NullId
       THEN loadSpecificIdeFile(s1, s1.openRequest)
     ELSE resetEditorState(s1, Untitled, DEFAULT_EDITOR_CONTENT,
                           LATEST_TRIDECCO_VERSION)

(***************************************************************************)
(* Initial states: the page scripts have run.  Without a share parameter   *)
(* the home page is shown; with one no page is shown until the LOAD_DELAY  *)
(* timer shows the editor page.                                            *)
(***************************************************************************)
\* The share links the page may have been opened with.
ShareParams ==
  {NoShare,
   [kind |-> "bad", content |-> 0, version |-> NullVersion],
   [kind |-> "ok", content |-> 1, version |-> SUPPORTED_TRIDECCO_VERSIONS[NumVersions]],
   [kind |-> "ok", content |-> 1, version |-> UnsupportedVersion]}

\* The records earlier sessions left in the store.
InitStores == {EmptyStore}

\* The store of a browser in which an earlier session saved a file.
ReturningStores ==
  {[EmptyStore EXCEPT ![1] = FileData(<<"main", ".js">>, 1,
                                      SUPPORTED_TRIDECCO_VERSIONS[NumVersions])]}

\* The handoff key localStorage holds when the page is loaded: none, or the
\* id of a record that is no longer in the store.
StaleRequests == {NullId} \cup FileIds

SinceCap == AUTOSAVE_DELAY + 1

SessionAtStart ==
  /\ currentFileId = NullId
  /\ currentFileName = Untitled
  /\ isDirty = FALSE
  /\ autosaveTimeoutId = NullHandle
  /\ currentBoardVersion = NullVersion
  /\ isBoardLoading = FALSE
  /\ selectorValue = LATEST_TRIDECCO_VERSION
  /\ selectorDisabled = FALSE
  /\ content = DEFAULT_EDITOR_CONTENT
  /\ timers = {}
  /\ scripts = {}
  /\ openRequest \in StaleRequests
  /\ shareParam \in ShareParams
  /\ modal = "hidden"
  /\ fileDialog = FALSE
  /\ reader = NoReader
  /\ page = IF shareParam = NoShare THEN "home" ELSE "none"
  /\ last = "other"
  /\ navConfirmed = [modal |-> FALSE, file |-> FALSE]
  /\ lastLoaded = NullVersion
  /\ deb = "none"
  /\ sinceEdit = SinceCap
  /\ userGone = FALSE

\* No call of the codec has been made and no share link opened.
NotYet == [type |-> "none"]

CodecIdle ==
  /\ data = NotYet
  /\ encodedString = NotYet
  /\ originalData = NotYet
  /\ loadedFromUrl = FALSE

\* The editor page script has run; no caller drives the document store on
\* its own.
InitEditor ==
  /\ SessionAtStart
  /\ CodecIdle
  /\ localStorage = NoItems
  /\ clock = 0
  /\ call = NoCall

InitSession == InitEditor /\ store \in InitStores

Init == InitSession /\ traced = FALSE /\ capacity = Quota

InitTraced == InitSession /\ traced = TRUE /\ capacity = Quota

InitRoomy == InitSession /\ traced = FALSE /\ capacity = MaxFiles

InitReturning ==
  InitEditor /\ store \in ReturningStores /\ traced = FALSE /\ capacity = Quota

(***************************************************************************)
(* History bookkeeping shared by the actions.                              *)
(***************************************************************************)
\* What the last step was, as far as the properties below tell steps apart:
\*   "autosave skipped", "autosave saved", "autosave failed"
\*                      performAutosave ran and took that branch
\*   "load failed"      scriptTag.onerror ran
\*   "load rejected"    a handler asked loadTrideccoVersion for a load while
\*                      one was in flight
\*   "open failed"      loadSpecificIdeFile did not get the record
\*   "same version"     handleVersionChange found the current version selected
\*   "edit without autosave"
\*                      the content-change callback ran in a session that is
\*                      unbound or loading a version
\*   "saved to computer"
\*                      handleSaveToComputer ran
\*   "save rejected"    handleSaveToIDE returned for want of a file name
\*   "saved as"         handleSaveToIDE created a record
\*   "save failed"      handleSaveToIDE caught the error of createFile
\*   "version changed"  scriptTag.onload ran for a load handleVersionChange
\*                      awaits, and handleVersionChange resumed
\*   "other"            any other handler
\* Any handler but a content change and the autosave callback ends an edit,
\* edit, autosave sequence.
Record(label) ==
  /\ last' = label
  /\ deb' = "none"
  /\ sinceEdit' = SinceCap

\* The label of a handler that asks loadTrideccoVersion for a load.
LoadLabel == IF isBoardLoading THEN "load rejected" ELSE "other"

Min(a, b) == IF a < b THEN a ELSE b

\* The user can reach the toolbar, the editor and the version selector.
EditorUsable == page = "editor" /\ modal = "hidden" /\ ~fileDialog

\* The files the modal and the home page list.
ListedFiles == {id \in FileIds : store[id].kind = "file"}

(***************************************************************************)
(* Actions: the bootstrap timer and the home page.                         *)
(***************************************************************************)
\* The LOAD_DELAY timer of a page opened with a share parameter shows the
\* editor page.
ShareTimerFires ==
  /\ page = "none"
  /\ Becomes(editorPageOnOpen([Cur EXCEPT !.page = "editor"]))
  /\ Record(IF /\ shareParam.kind # "ok"
               /\ openRequest # NullId
               /\ loadFile(store, openRequest).kind # "file"
              THEN "open failed" ELSE LoadLabel)
  /\ UNCHANGED <<fsVars, codecVars, capacity, userGone,
                 traced, navConfirmed, lastLoaded>>

\* Home, 'create-new': removes the handoff key and shows the editor page.
HomeCreateNew ==
  /\ page = "home"
  /\ Becomes(editorPageOnOpen([Cur EXCEPT !.openRequest = NullId,
                                          !.page = "editor"]))
  /\ Record(LoadLabel)
  /\ UNCHANGED <<fsVars, codecVars, capacity, userGone,
                 traced, navConfirmed, lastLoaded>>

\* Home, 'open-recent': sets the handoff key and shows the editor page.
HomeOpenRecent ==
  /\ page = "home"
  /\ \E fileId \in ListedFiles :
       /\ Becomes(editorPageOnOpen([Cur EXCEPT !.openRequest = fileId,
                                               !.page = "editor"]))
       /\ Record(LoadLabel)
  /\ UNCHANGED <<fsVars, codecVars, capacity, userGone,
                 traced, navConfirmed, lastLoaded>>

(***************************************************************************)
(* Actions: editing, the version selector, the loader, the timer.          *)
(***************************************************************************)
\* The user edits the text: Monaco calls the content-change callback.
ContentChange ==
  /\ EditorUsable
  /\ Cardinality(timers) < MaxTimers
  /\ \E text \in Contents \ {content} :
       Becomes(onContentChange(Cur, text))
  /\ last' = IF currentFileId # NullId /\ ~isBoardLoading
               THEN "other" ELSE "edit without autosave"
  /\ deb' = IF currentFileId # NullId /\ ~isBoardLoading
              THEN IF deb \in {"one", "two"} /\ sinceEdit < AUTOSAVE_DELAY
                     THEN "two" ELSE "one"
              ELSE "none"
  /\ sinceEdit' = IF currentFileId # NullId /\ ~isBoardLoading
                    THEN 0 ELSE SinceCap
  /\ UNCHANGED <<fsVars, codecVars, capacity, userGone,
                 traced, navConfirmed, lastLoaded>>

\* The user picks another version: the 'change' event of the selector.
VersionSelect ==
  /\ EditorUsable
  /\ ~selectorDisabled
  /\ \E version \in Supported \ {selectorValue} :
       /\ Becomes(handleVersionChange([Cur EXCEPT !.selectorValue = version]))
       /\ Record(IF ~isBoardLoading /\ version = currentBoardVersion
                    THEN "same version" ELSE "other")
  /\ UNCHANGED <<fsVars, codecVars, capacity, userGone,
                 traced, navConfirmed, lastLoaded>>

\* The script of a version has loaded.
ScriptLoaded ==
  /\ Cardinality(timers) < MaxTimers
  /\ \E tag \in scripts :
       /\ Becomes(scriptOnLoad(Cur, tag))
       /\ Record(IF tag.awaited THEN "version changed" ELSE "other")
       /\ lastLoaded' = Traced(tag.version, lastLoaded)
  /\ UNCHANGED <<fsVars, codecVars, capacity, userGone, navConfirmed, traced>>

\* The script of a version could not be loaded.
ScriptFailed ==
  /\ \E tag \in scripts :
       /\ Becomes(scriptOnError(Cur, tag))
       /\ Record("load failed")
  /\ UNCHANGED <<fsVars, codecVars, capacity, userGone,
                 traced, navConfirmed, lastLoaded>>

\* A due timer fires: the browser drops it and runs performAutosave.
AutosaveTimerFires ==
  /\ \E t \in timers, storageOk \in BOOLEAN :
       /\ t.remaining = 0
       /\ Becomes(performAutosave([Cur EXCEPT !.timers = @ \ {t}], storageOk))
       /\ last' = "autosave " \o performAutosaveOutcome(Cur, storageOk)
  /\ deb' = IF deb = "two" THEN "fired" ELSE "none"
  /\ sinceEdit' = IF deb = "two" THEN sinceEdit ELSE SinceCap
  /\ UNCHANGED <<fsVars, codecVars, capacity, userGone,
                 traced, navConfirmed, lastLoaded>>

\* Time passes, up to the moment the next timer is due.  (Without a pending
\* timer the passing of time changes nothing the session can observe.)
Tick ==
  /\ timers # {}
  /\ \A t \in timers : t.remaining > 0
  /\ LET d == Min(TimeStep,
                  CHOOSE r \in {t.remaining : t \in timers} :
                    \A t \in timers : r <= t.remaining)
     IN /\ timers' = {[t EXCEPT !.remaining = @ - d] : t \in timers}
        /\ sinceEdit' = IF deb \in {"one", "two"}
                          THEN Min(sinceEdit + d, SinceCap) ELSE SinceCap
  /\ last' = "other"
  /\ UNCHANGED <<currentFileId, currentFileName, isDirty, autosaveTimeoutId,
                 currentBoardVersion, isBoardLoading, selectorValue,
                 selectorDisabled, content, scripts, store, openRequest,
                 shareParam, modal, fileDialog, reader, page>>
  /\ UNCHANGED <<fsVars, codecVars, capacity, userGone,
                 traced, navConfirmed, lastLoaded, deb>>

(***************************************************************************)
(* Actions: the toolbar.  confirmed is the user's answer to window.confirm *)
(* (asked only when ToolbarPrompts).                                       *)
(***************************************************************************)
NoInput == [confirmed |-> FALSE, name |-> PromptNull, fileId |-> NullId,
            storageOk |-> TRUE]

\* The branch a prompting toolbar action took.
NavOut(action, confirmed) ==
  IF ~ToolbarPrompts(Cur, action) THEN "clean"
  ELSE IF confirmed THEN "confirmed" ELSE "declined"

\* Toolbar, 'load-ide': shows the file-picker modal.
ToolbarLoadIde ==
  /\ EditorUsable
  /\ \E confirmed \in BOOLEAN :
       /\ Becomes(toolbarClick(Cur, "load-ide",
                               [NoInput EXCEPT !.confirmed = confirmed]))
       /\ Record("other")
       /\ navConfirmed' = Traced(
            [navConfirmed EXCEPT !.modal = NavOut("load-ide", confirmed) = "confirmed"],
            navConfirmed)
  /\ UNCHANGED <<fsVars, codecVars, capacity, userGone, lastLoaded, traced>>

\* Toolbar, 'new-template': shows the file-picker modal in template mode.
ToolbarNewTemplate ==
  /\ EditorUsable
  /\ \E confirmed \in BOOLEAN :
       /\ Becomes(toolbarClick(Cur, "new-template",
                               [NoInput EXCEPT !.confirmed = confirmed]))
       /\ Record("other")
       /\ navConfirmed' = Traced(
            [navConfirmed EXCEPT !.modal = NavOut("new-template", confirmed) = "confirmed"],
            navConfirmed)
  /\ UNCHANGED <<fsVars, codecVars, capacity, userGone, lastLoaded, traced>>

\* Toolbar, 'load-computer': opens the file dialog.  (One FileReader at a
\* time is modelled.)
ToolbarLoadComputer ==
  /\ EditorUsable
  /\ reader = NoReader
  /\ \E confirmed \in BOOLEAN :
       /\ Becomes(toolbarClick(Cur, "load-computer",
                               [NoInput EXCEPT !.confirmed = confirmed]))
       /\ Record("other")
       /\ navConfirmed' = Traced(
            [navConfirmed EXCEPT !.file = NavOut("load-computer", confirmed) = "confirmed"],
            navConfirmed)
  /\ UNCHANGED <<fsVars, codecVars, capacity, userGone, lastLoaded, traced>>

\* Toolbar, 'new-empty': handleNewFile.
ToolbarNewEmpty ==
  /\ EditorUsable
  /\ \E confirmed \in BOOLEAN :
       /\ Becomes(toolbarClick(Cur, "new-empty",
                               [NoInput EXCEPT !.confirmed = confirmed]))
       /\ Record(IF NavOut("new-empty", confirmed) = "declined"
                    THEN "other" ELSE LoadLabel)
  /\ UNCHANGED <<fsVars, codecVars, capacity, userGone,
                 traced, navConfirmed, lastLoaded>>

\* Toolbar, 'exit': cancels the pending autosave and shows the home page.
ToolbarExit ==
  /\ EditorUsable
  /\ \E confirmed \in BOOLEAN :
       /\ Becomes(toolbarClick(Cur, "exit",
                               [NoInput EXCEPT !.confirmed = confirmed]))
       /\ Record("other")
  /\ UNCHANGED <<fsVars, codecVars, capacity, userGone,
                 traced, navConfirmed, lastLoaded>>

\* The id createFile generates (none is left when the model's ids are used
\* up; the write then fails).
NewFileIds ==
  IF GenerateUniqueId(store) = {} THEN {NullId} ELSE GenerateUniqueId(store)

\* Whether localStorage.setItem accepts a new record: it may always throw,
\* and it throws when there is no room left.
WriteOutcomes ==
  IF Cardinality(ListedFiles) < capacity /\ GenerateUniqueId(store) # {}
    THEN BOOLEAN ELSE {FALSE}

\* Toolbar, 'save-ide': handleSaveToIDE.
ToolbarSaveIde ==
  /\ EditorUsable
  /\ \E name \in PromptResults, fileId \in NewFileIds,
        storageOk \in WriteOutcomes :
       /\ Becomes(toolbarClick(Cur, "save-ide",
                               [NoInput EXCEPT !.name = name,
                                               !.fileId = fileId,
                                               !.storageOk = storageOk]))
       /\ Record(IF IsFalsyName(name) \/ IsBlankName(name)
                   THEN "save rejected"
                 ELSE IF storageOk THEN "saved as" ELSE "save failed")
  /\ UNCHANGED <<fsVars, codecVars, capacity, userGone,
                 traced, navConfirmed, lastLoaded>>

\* Toolbar, 'save-computer': handleSaveToComputer downloads the text.
ToolbarSaveComputer ==
  /\ EditorUsable
  /\ Becomes(toolbarClick(Cur, "save-computer", NoInput))
  /\ Record("saved to computer")
  /\ UNCHANGED <<fsVars, codecVars, capacity, userGone,
                 traced, navConfirmed, lastLoaded>>

(***************************************************************************)
(* Actions: the file-picker modal, the file dialog, the FileReader.        *)
(***************************************************************************)
\* A file button of the modal in 'load' mode: loadSelectedIdeFile.
ModalPickFile ==
  /\ page = "editor"
  /\ modal = "load"
  /\ \E fileId \in ListedFiles, confirmed \in BOOLEAN :
       /\ Becomes(loadSelectedIdeFile(Cur, fileId, confirmed))
       /\ Record(IF isDirty /\ ~confirmed THEN "other" ELSE LoadLabel)
  /\ navConfirmed' = Traced(
            [navConfirmed EXCEPT !.modal = FALSE],
            navConfirmed)
  /\ UNCHANGED <<fsVars, codecVars, capacity, userGone, lastLoaded, traced>>

\* A file button of the modal in 'template' mode: loadSelectedFileAsTemplate.
ModalPickTemplate ==
  /\ page = "editor"
  /\ modal = "template"
  /\ \E fileId \in ListedFiles :
       /\ Becomes(loadSelectedFileAsTemplate(Cur, fileId))
       /\ Record(LoadLabel)
  /\ navConfirmed' = Traced(
            [navConfirmed EXCEPT !.modal = FALSE],
            navConfirmed)
  /\ UNCHANGED <<fsVars, codecVars, capacity, userGone, lastLoaded, traced>>

\* The modal's Cancel button: hideIdeFileModal.
ModalCancel ==
  /\ page = "editor"
  /\ modal # "hidden"
  /\ Becomes(hideIdeFileModal(Cur))
  /\ Record("other")
  /\ navConfirmed' = Traced(
            [navConfirmed EXCEPT !.modal = FALSE],
            navConfirmed)
  /\ UNCHANGED <<fsVars, codecVars, capacity, userGone, lastLoaded, traced>>

\* The user picks a file in the file dialog: the 'change' listener starts a
\* FileReader.
FileDialogPick ==
  /\ fileDialog
  /\ \E file \in ComputerFiles :
       Becomes([Cur EXCEPT !.fileDialog = FALSE,
                           !.reader = [kind |-> "reading", name |-> file.name,
                                       content |-> file.content]])
  /\ Record("other")
  /\ UNCHANGED <<fsVars, codecVars, capacity, userGone,
                 traced, navConfirmed, lastLoaded>>

\* The user closes the file dialog without a file: no event is sent.
FileDialogCancel ==
  /\ fileDialog
  /\ Becomes([Cur EXCEPT !.fileDialog = FALSE])
  /\ Record("other")
  /\ navConfirmed' = Traced(
            [navConfirmed EXCEPT !.file = FALSE],
            navConfirmed)
  /\ UNCHANGED <<fsVars, codecVars, capacity, userGone, lastLoaded, traced>>

\* reader.onload: the picked file replaces the document.
ReaderLoaded ==
  /\ reader.kind = "reading"
  /\ Becomes(resetEditorState([Cur EXCEPT !.reader = NoReader], reader.name,
                              reader.content, LATEST_TRIDECCO_VERSION))
  /\ Record(LoadLabel)
  /\ navConfirmed' = Traced(
            [navConfirmed EXCEPT !.file = FALSE],
            navConfirmed)
  /\ UNCHANGED <<fsVars, codecVars, capacity, userGone, lastLoaded, traced>>

\* reader.onerror: the document is reset to the default.
ReaderFailed ==
  /\ reader.kind = "reading"
  /\ Becomes(resetEditorState([Cur EXCEPT !.reader = NoReader], Untitled,
                              DEFAULT_EDITOR_CONTENT, LATEST_TRIDECCO_VERSION))
  /\ Record(LoadLabel)
  /\ navConfirmed' = Traced(
            [navConfirmed EXCEPT !.file = FALSE],
            navConfirmed)
  /\ UNCHANGED <<fsVars, codecVars, capacity, userGone, lastLoaded, traced>>

(***************************************************************************)
(* The specification.                                                      *)
(***************************************************************************)
Next ==
  \/ ShareTimerFires
  \/ HomeCreateNew
  \/ HomeOpenRecent
  \/ ContentChange
  \/ VersionSelect
  \/ ScriptLoaded
  \/ ScriptFailed
  \/ AutosaveTimerFires
  \/ Tick
  \/ ToolbarLoadIde
  \/ ToolbarNewTemplate
  \/ ToolbarLoadComputer
  \/ ToolbarNewEmpty
  \/ ToolbarExit
  \/ ToolbarSaveIde
  \/ ToolbarSaveComputer
  \/ ModalPickFile
  \/ ModalPickTemplate
  \/ ModalCancel
  \/ FileDialogPick
  \/ FileDialogCancel
  \/ ReaderLoaded
  \/ ReaderFailed

Spec == Init /\ [][Next]_vars

\* The same program, in behaviours that also record which loads the user
\* confirmed and which version loaded last.
SpecTraced == InitTraced /\ [][Next]_vars

\* The same program with room for MaxFiles records in localStorage.
SpecRoomy == InitRoomy /\ [][Next]_vars

\* The same program in a browser whose store already holds a file.
SpecReturning == InitReturning /\ [][Next]_vars

\* The last handler that ran was the content-change callback, in a bound
\* session, which it has made dirty.
BoundEditJustMade ==
  /\ page = "editor"
  /\ currentFileId # NullId
  /\ isDirty
  /\ \/ last = "edit without autosave"
     \/ last = "other" /\ deb \in {"one", "two"} /\ sinceEdit = 0

\* The user stops right after an edit of a bound document: no user event
\* follows.  The loader, the timers and a file read go on.
UserLeaves ==
  /\ ~userGone
  /\ BoundEditJustMade
  /\ userGone' = TRUE
  /\ UNCHANGED <<progVars, histVars, fsVars, codecVars>>

\* The program with a user who may stop after an edit.
NextAttended ==
  \/ ShareTimerFires
  \/ ~userGone /\ HomeCreateNew
  \/ ~userGone /\ HomeOpenRecent
  \/ ~userGone /\ ContentChange
  \/ ~userGone /\ VersionSelect
  \/ ScriptLoaded
  \/ ScriptFailed
  \/ AutosaveTimerFires
  \/ Tick
  \/ ~userGone /\ ToolbarLoadIde
  \/ ~userGone /\ ToolbarNewTemplate
  \/ ~userGone /\ ToolbarLoadComputer
  \/ ~userGone /\ ToolbarNewEmpty
  \/ ~userGone /\ ToolbarExit
  \/ ~userGone /\ ToolbarSaveIde
  \/ ~userGone /\ ToolbarSaveComputer
  \/ ~userGone /\ ModalPickFile
  \/ ~userGone /\ ModalPickTemplate
  \/ ~userGone /\ ModalCancel
  \/ ~userGone /\ FileDialogPick
  \/ ~userGone /\ FileDialogCancel
  \/ ReaderLoaded
  \/ ReaderFailed
  \/ UserLeaves

\* The browser runs what is due: a script element ends in load or error, a
\* pending timer comes due and a due timer's callback runs.
Scheduling ==
  /\ WF_vars(ScriptLoaded \/ ScriptFailed)
  /\ WF_vars(Tick)
  /\ WF_vars(AutosaveTimerFires)

SpecAttended == Init /\ [][NextAttended]_vars /\ Scheduling


(***************************************************************************)
(* The document store on its own: FileSystem (src/unnamed/part_000) over   *)
(* window.localStorage, driven by callers that may pass any arguments.     *)
(*                                                                         *)
(* A string the code only takes apart at "_" is a sequence of tokens: "_"  *)
(* and runs of other characters.  Date.now() never goes back; it may      *)
(* return the same millisecond to two calls.                               *)
(***************************************************************************)
\* The value of a property the object does not have.
Undefined == "undefined"

\* The stored value of a key that is not JSON text.
Bytes == [kind |-> "bytes"]

\* localStorage.getItem of a key that is not there.
Null == [kind |-> "null"]

\* An object without properties.
EmptyObject == [x \in {} |-> x]

\* An object with one property.
Property(field, value) == [x \in {field} |-> value]

\* {...target, ...source}: the properties of source over those of target.
Spread(target, source) ==
  [x \in DOMAIN target \cup DOMAIN source |->
     IF x \in DOMAIN source THEN source[x] ELSE target[x]]

\* object[field].
Get(object, field) ==
  IF field \in DOMAIN object THEN object[field] ELSE Undefined

\* JSON.stringify of a file record: a property whose value is undefined is
\* left out of the text.
JsonStringify(object) ==
  [kind |-> "json",
   data |-> [x \in {y \in DOMAIN object :
                      y \in {"id", "name", "content", "boardVersion"}
                        => object[y] # Undefined} |-> object[x]]]

\* localStorage.setItem, getItem and removeItem.
SetItem(items, key, value) ==
  [k \in DOMAIN items \cup {key} |-> IF k = key THEN value ELSE items[k]]

GetItem(items, key) == IF key \in DOMAIN items THEN items[key] ELSE Null

RemoveItem(items, key) == [k \in DOMAIN items \ {key} |-> items[k]]

\* The names a FileSystem is constructed with: the second begins with the
\* first and a "_".
StorageNames == {<<"EditorStorage">>, <<"EditorStorage", "_", "B">>}

\* constructor: this.storageKeyPrefix.
storageKeyPrefix(storageName) == storageName \o <<"_">>

\* key.startsWith(prefix).
StartsWith(key, prefix) ==
  /\ Len(prefix) <= Len(key)
  /\ SubSeq(key, 1, Len(prefix)) = prefix

\* key.substring(prefix.length).
Substring(key, start) == SubSeq(key, start + 1, Len(key))

\* The random parts _generateUniqueId may draw.
RandomParts == {"r" \o ToString(i) : i \in 1..NumRandoms}

\* _generateUniqueId: `${Date.now()}_${randomPart}`.
generateUniqueId(now, randomPart) == <<ToString(now), "_", randomPart>>

\* _getStorageKey.
getStorageKey(storageName, fileId) == storageKeyPrefix(storageName) \o fileId

\* A call that throws the error: localStorage is as the call found it.
Thrown(items, error) ==
  [ok |-> FALSE, items |-> items, id |-> <<>>, error |-> error]

\* A call that returns, leaving localStorage as given.
Returned(items) == [ok |-> TRUE, items |-> items, id |-> <<>>, error |-> "none"]

\* createFile as it would be if it read the time once for each timestamp
\* and a millisecond passed between the two.
fsCreateFileStampsTwice(items, now, storageName, name, text, boardVersion, randomPart, room) ==
  LET fileId == generateUniqueId(now, randomPart)
      fileData == [id |-> fileId, name |-> name, content |-> text,
                   boardVersion |-> boardVersion,
                   metadata |-> [createdAt |-> now, updatedAt |-> now + 1]]
      key == getStorageKey(storageName, fileId)
  IN IF name = "" THEN Thrown(items, "File name cannot be empty.")
     ELSE IF ~room THEN Thrown(items, "Failed to save file")
     ELSE [ok |-> TRUE, items |-> SetItem(items, key, JsonStringify(fileData)),
           id |-> fileId, error |-> "none"]

\* createFile as it would be without the check of the name.
fsCreateFileAnyName(items, now, storageName, name, text, boardVersion, randomPart, room) ==
  LET fileId == generateUniqueId(now, randomPart)
      fileData == [id |-> fileId, name |-> name, content |-> text,
                   boardVersion |-> boardVersion,
                   metadata |-> [createdAt |-> now, updatedAt |-> now]]
      key == getStorageKey(storageName, fileId)
  IN IF ~room THEN Thrown(items, "Failed to save file")
     ELSE [ok |-> TRUE, items |-> SetItem(items, key, JsonStringify(fileData)),
           id |-> fileId, error |-> "none"]

\* createFile as it would be if it stored the record under the name of the
\* file instead of the generated id.
fsCreateFileKeyedByName(items, now, storageName, name, text, boardVersion, randomPart, room) ==
  LET fileId == generateUniqueId(now, randomPart)
      fileData == [id |-> fileId, name |-> name, content |-> text,
                   boardVersion |-> boardVersion,
                   metadata |-> [createdAt |-> now, updatedAt |-> now]]
      key == getStorageKey(storageName, <<name>>)
  IN IF name = "" THEN Thrown(items, "File name cannot be empty.")
     ELSE IF ~room THEN Thrown(items, "Failed to save file")
     ELSE [ok |-> TRUE, items |-> SetItem(items, key, JsonStringify(fileData)),
           id |-> fileId, error |-> "none"]

\* FileSystem.createFile; room says whether setItem accepts the write.
fsCreateFile(items, now, storageName, name, text, boardVersion, randomPart, room) ==
  LET fileId == generateUniqueId(now, randomPart)
      fileData == [id |-> fileId, name |-> name, content |-> text,
                   boardVersion |-> boardVersion,
                   metadata |-> [createdAt |-> now, updatedAt |-> now]]
      key == getStorageKey(storageName, fileId)
  IN IF name = "" THEN Thrown(items, "File name cannot be empty.")
     ELSE IF ~room THEN Thrown(items, "Failed to save file")
     ELSE [ok |-> TRUE, items |-> SetItem(items, key, JsonStringify(fileData)),
           id |-> fileId, error |-> "none"]

\* The fields of a patch updateFile looks at.
PatchFields == {"content", "boardVersion", "name", "metadata"}

\* updateFile as it would be if it stored the content of the patch as soon
\* as it had read it, before it looks at the name.
fsUpdateFileStoresEarly(items, now, storageName, fileId, updates, room) ==
  LET key == getStorageKey(storageName, fileId)
      stored == GetItem(items, key)
      d0 == stored.data
      d1 == IF "content" \in DOMAIN updates
              THEN Spread(d0, Property("content", updates.content)) ELSE d0
      d2 == IF "boardVersion" \in DOMAIN updates
              THEN Spread(d1, Property("boardVersion", updates.boardVersion))
              ELSE d1
      d3 == IF "name" \in DOMAIN updates
              THEN Spread(d2, Property("name", updates.name)) ELSE d2
      d4 == IF "metadata" \in DOMAIN updates
              THEN Spread(d3, Property("metadata",
                                       Spread(d3.metadata, updates.metadata)))
              ELSE d3
      updated == DOMAIN updates \cap PatchFields # {}
      fileData == Spread(d4, Property("metadata",
                    Spread(d4.metadata, Property("updatedAt", now))))
  IN IF stored = Null THEN Thrown(items, "File does not exist.")
     ELSE IF stored = Bytes THEN Thrown(items, "Corrupted data found")
     ELSE IF "name" \in DOMAIN updates /\ updates.name = ""
       THEN Thrown(SetItem(items, key, JsonStringify(d2)),
                   "File name cannot be empty.")
     ELSE IF ~updated THEN Returned(items)
     ELSE IF ~room THEN Thrown(items, "Failed to save file")
     ELSE Returned(SetItem(items, key, JsonStringify(fileData)))

\* updateFile as it would be without the refresh of metadata.updatedAt.
fsUpdateFileKeepsUpdatedAt(items, now, storageName, fileId, updates, room) ==
  LET key == getStorageKey(storageName, fileId)
      stored == GetItem(items, key)
      d0 == stored.data
      d1 == IF "content" \in DOMAIN updates
              THEN Spread(d0, Property("content", updates.content)) ELSE d0
      d2 == IF "boardVersion" \in DOMAIN updates
              THEN Spread(d1, Property("boardVersion", updates.boardVersion))
              ELSE d1
      d3 == IF "name" \in DOMAIN updates
              THEN Spread(d2, Property("name", updates.name)) ELSE d2
      d4 == IF "metadata" \in DOMAIN updates
              THEN Spread(d3, Property("metadata",
                                       Spread(d3.metadata, updates.metadata)))
              ELSE d3
      updated == DOMAIN updates \cap PatchFields # {}
  IN IF stored = Null THEN Thrown(items, "File does not exist.")
     ELSE IF stored = Bytes THEN Thrown(items, "Corrupted data found")
     ELSE IF "name" \in DOMAIN updates /\ updates.name = ""
       THEN Thrown(items, "File name cannot be empty.")
     ELSE IF ~updated THEN Returned(items)
     ELSE IF ~room THEN Thrown(items, "Failed to save file")
     ELSE Returned(SetItem(items, key, JsonStringify(d4)))

\* FileSystem.updateFile.
fsUpdateFile(items, now, storageName, fileId, updates, room) ==
  LET key == getStorageKey(storageName, fileId)
      stored == GetItem(items, key)
      d0 == stored.data
      d1 == IF "content" \in DOMAIN updates
              THEN Spread(d0, Property("content", updates.content)) ELSE d0
      d2 == IF "boardVersion" \in DOMAIN updates
              THEN Spread(d1, Property("boardVersion", updates.boardVersion))
              ELSE d1
      d3 == IF "name" \in DOMAIN updates
              THEN Spread(d2, Property("name", updates.name)) ELSE d2
      d4 == IF "metadata" \in DOMAIN updates
              THEN Spread(d3, Property("metadata",
                                       Spread(d3.metadata, updates.metadata)))
              ELSE d3
      updated == DOMAIN updates \cap PatchFields # {}
      fileData == Spread(d4, Property("metadata",
                    Spread(d4.metadata, Property("updatedAt", now))))
  IN IF stored = Null THEN Thrown(items, "File does not exist.")
     ELSE IF stored = Bytes THEN Thrown(items, "Corrupted data found")
     ELSE IF "name" \in DOMAIN updates /\ updates.name = ""
       THEN Thrown(items, "File name cannot be empty.")
     ELSE IF ~updated THEN Returned(items)
     ELSE IF ~room THEN Thrown(items, "Failed to save file")
     ELSE Returned(SetItem(items, key, JsonStringify(fileData)))

\* FileSystem.loadFile: null, an error, or the parsed record.
fsLoadFile(items, storageName, fileId) ==
  LET stored == GetItem(items, getStorageKey(storageName, fileId))
  IN IF stored = Null THEN [ok |-> TRUE, value |-> Null]
     ELSE IF stored = Bytes THEN [ok |-> FALSE, value |-> Null]
     ELSE [ok |-> TRUE, value |-> stored.data]

\* FileSystem.deleteFile.
fsDeleteFile(items, storageName, fileId) ==
  RemoveItem(items, getStorageKey(storageName, fileId))

\* The keys the loops of listFiles and clearAll take for their own.
OwnKeys(items, storageName) ==
  {key \in DOMAIN items : StartsWith(key, storageKeyPrefix(storageName))}

\* listFiles: fileData && fileData.id && fileData.name && fileData.metadata,
\* for the stored value of a key; a value that is not JSON makes the parse
\* throw, and the entry is skipped.
WellFormed(stored) ==
  /\ stored # Bytes
  /\ {"id", "name", "metadata"} \subseteq DOMAIN stored.data
  /\ stored.data.name # ""

\* listFiles: the entry { id, name, boardVersion, metadata } of a record.
Summary(fileData) ==
  [id |-> fileData.id, name |-> fileData.name,
   boardVersion |-> Get(fileData, "boardVersion"),
   metadata |-> fileData.metadata]

\* FileSystem.listFiles, as the set of the entries it returns.
fsListFiles(items, storageName) ==
  {Summary(items[key].data) :
     key \in {k \in OwnKeys(items, storageName) : WellFormed(items[k])}}

\* The orders in which localStorage.key(i) may give the keys: the order is
\* the browser's own.
KeyOrders(items) ==
  {keys \in [1..Cardinality(DOMAIN items) -> DOMAIN items] :
     \A i, j \in DOMAIN keys : i # j => keys[i] # keys[j]}

\* listFiles, the loop: the entries pushed, in the order of the keys.
RECURSIVE Pushed(_, _, _)
Pushed(items, storageName, keys) ==
  IF keys = <<>> THEN <<>>
  ELSE LET key == Head(keys)
           rest == Pushed(items, storageName, Tail(keys))
       IN IF /\ StartsWith(key, storageKeyPrefix(storageName))
             /\ WellFormed(items[key])
            THEN <<Summary(items[key].data)>> \o rest
            ELSE rest

\* The sort as it would be if it left the entries in the order of the keys.
SortKeepsOrder(files) == files

\* files.sort((a, b) => b.metadata.createdAt - a.metadata.createdAt): the
\* sort is stable, an entry goes behind those that are not older.
RECURSIVE SortByCreatedAt(_)
SortByCreatedAt(files) ==
  IF files = <<>> THEN <<>>
  ELSE LET sorted == SortByCreatedAt(SubSeq(files, 1, Len(files) - 1))
           file == files[Len(files)]
           ahead == {i \in DOMAIN sorted :
                       \A j \in 1..i :
                         sorted[j].metadata.createdAt
                           >= file.metadata.createdAt}
           n == Cardinality(ahead)
       IN SubSeq(sorted, 1, n) \o <<file>> \o SubSeq(sorted, n + 1, Len(sorted))

\* FileSystem.listFiles, for an order of the keys.
fsListFilesInOrder(items, storageName, keys) ==
  SortByCreatedAt(Pushed(items, storageName, keys))

\* FileSystem.clearAll.
fsClearAll(items, storageName) ==
  [items |-> [k \in DOMAIN items \ OwnKeys(items, storageName) |-> items[k]],
   removedCount |-> Cardinality(OwnKeys(items, storageName))]

\* The arguments the callers pass.
FsNames == {"", "a"}

FsVersions == {Undefined, LATEST_TRIDECCO_VERSION}

FsText == "c1"

\* A patch with the field, for each of the values, or without it.
Optional(field, values) ==
  {EmptyObject} \cup {Property(field, v) : v \in values}

\* A createdAt no clock of the model reaches.
FarFuture == MaxClock + 1

Patches ==
  {Spread(Spread(a, b), Spread(c, d)) :
     a \in Optional("content", {"c2"}),
     b \in Optional("boardVersion", {SUPPORTED_TRIDECCO_VERSIONS[NumVersions]}),
     c \in Optional("name", {"", "b"}),
     d \in Optional("metadata", {[createdAt |-> FarFuture]})}

\* The ids a caller may pass under a storage name: those of the keys it
\* owns, and one that was never given out.
UnknownId == <<"x">>

KnownIds(storageName) ==
  {Substring(key, Len(storageKeyPrefix(storageName))) :
     key \in OwnKeys(localStorage, storageName)} \cup {UnknownId}

\* A key of an earlier version of the application, whose value is not JSON.
OldKey == getStorageKey(<<"EditorStorage">>, <<"old">>)

\* The store before its first call: the old key may be there.  The editor
\* page is not in use.
InitDocuments ==
  /\ SessionAtStart
  /\ CodecIdle
  /\ shareParam = NoShare
  /\ openRequest = NullId
  /\ store = EmptyStore
  /\ traced = FALSE
  /\ clock = 0
  /\ call = NoCall
  /\ localStorage \in {NoItems, SetItem(NoItems, OldKey, Bytes)}

InitFS == InitDocuments /\ capacity = Quota

sessionVars == <<progVars, histVars, userGone>>

\* Whether setItem accepts the key: it may always throw, and it throws for a
\* new key when there is no room left.
RoomForKey(key) ==
  IF \/ key \in DOMAIN localStorage
     \/ Cardinality(DOMAIN localStorage \ {OldKey}) < capacity
    THEN BOOLEAN ELSE {FALSE}

\* A caller creates a file.
FsCreate ==
  /\ \E storageName \in StorageNames, name \in FsNames,
        boardVersion \in FsVersions, randomPart \in RandomParts :
       LET key == getStorageKey(storageName,
                                generateUniqueId(clock, randomPart))
       IN \E room \in RoomForKey(key) :
            LET r == fsCreateFile(localStorage, clock, storageName, name,
                                  FsText, boardVersion, randomPart, room)
            IN /\ localStorage' = r.items
               /\ call' = [op |-> "create", ok |-> r.ok, error |-> r.error,
                           fresh |-> key \notin DOMAIN localStorage]
  /\ UNCHANGED <<clock, sessionVars, codecVars>>

\* A caller updates a file.
FsUpdate ==
  /\ \E storageName \in StorageNames, updates \in Patches, room \in BOOLEAN :
       \E fileId \in KnownIds(storageName) :
         LET r == fsUpdateFile(localStorage, clock, storageName, fileId,
                               updates, room)
         IN /\ localStorage' = r.items
            /\ call' = [op |-> "update", ok |-> r.ok, error |-> r.error]
  /\ UNCHANGED <<clock, sessionVars, codecVars>>

\* A caller deletes a file.
FsDelete ==
  /\ \E storageName \in StorageNames :
       \E fileId \in KnownIds(storageName) :
         /\ localStorage' = fsDeleteFile(localStorage, storageName, fileId)
         /\ call' = [op |-> "delete", ok |-> TRUE, error |-> "none"]
  /\ UNCHANGED <<clock, sessionVars, codecVars>>

\* A caller clears a store.
FsClearAll ==
  /\ \E storageName \in StorageNames :
       LET r == fsClearAll(localStorage, storageName)
       IN /\ localStorage' = r.items
          /\ call' = [op |-> "clearAll", ok |-> TRUE, error |-> "none"]
  /\ UNCHANGED <<clock, sessionVars, codecVars>>

\* A millisecond passes.
FsTick ==
  /\ clock < MaxClock
  /\ clock' = clock + 1
  /\ UNCHANGED <<localStorage, call, sessionVars, codecVars>>

NextFS ==
  \/ FsCreate
  \/ FsUpdate
  \/ FsDelete
  \/ FsClearAll
  \/ FsTick

\* The document store with room for Quota records.
SpecFS == InitFS /\ [][NextFS]_vars

\* What an earlier version or another program may have left under the old
\* key: bytes that are not JSON, a record without a name, a record without
\* metadata.
Leftovers ==
  {Bytes,
   JsonStringify([id |-> <<"old">>, content |-> FsText,
                  metadata |-> [createdAt |-> 0, updatedAt |-> 0]]),
   JsonStringify([id |-> <<"old">>, name |-> "a", content |-> FsText])}

\* The store with a leftover under the old key and room for MaxFiles
\* records.
InitList ==
  /\ SessionAtStart
  /\ CodecIdle
  /\ shareParam = NoShare
  /\ openRequest = NullId
  /\ store = EmptyStore
  /\ traced = FALSE
  /\ clock = 0
  /\ call = NoCall
  /\ capacity = MaxFiles
  /\ \E stored \in Leftovers :
       localStorage = SetItem(NoItems, OldKey, stored)

\* A caller lists the files of a store.
FsList ==
  /\ \E storageName \in StorageNames, keys \in KeyOrders(localStorage) :
       call' = [op |-> "list", ok |-> TRUE, error |-> "none",
                storageName |-> storageName,
                files |-> fsListFilesInOrder(localStorage, storageName,
                                             keys)]
  /\ UNCHANGED <<localStorage, clock, sessionVars, codecVars>>

NextList ==
  \/ FsCreate
  \/ FsDelete
  \/ FsClearAll
  \/ FsList
  \/ FsTick

\* The document store as creates, deletes and listings drive it.
SpecList == InitList /\ [][NextList]_vars

(***************************************************************************)
(* The share codec: URLDataTranscoder (src/unnamed/part_001), and the part *)
(* of editorPageOnOpen that reads a share link.                            *)
(*                                                                         *)
(* A string is the sequence of its UTF-16 code units.  A value of the      *)
(* program is a record with its type: a string, a number, null, an object  *)
(* with its members in order, or the error a call threw.                   *)
(***************************************************************************)
Str(s) == [type |-> "string", value |-> s]

Num(n) == [type |-> "number", value |-> n]

JsNull == [type |-> "null"]

Obj(members) == [type |-> "object", members |-> members]

Member(key, value) == [key |-> key, value |-> value]

\* What a call that throws gives: the name of the error.
Throws(name) == [type |-> "thrown", error |-> name]

\* The code units of the property names "content" and "version".
ContentKey == <<99, 111, 110, 116, 101, 110, 116>>

VersionKey == <<118, 101, 114, 115, 105, 111, 110>>

\* handleShare: const dataToEncode = { content, version }.
SharePayload(text, version) ==
  Obj(<<Member(ContentKey, Str(text)), Member(VersionKey, Str(version))>>)

\* JSON.stringify of a string, without the quotes: the quote, the backslash
\* and the line feed are escaped.  Other control characters and lone
\* surrogates are not among the characters of the model.
RECURSIVE Escaped(_)
Escaped(s) ==
  IF s = <<>> THEN <<>>
  ELSE LET c == Head(s)
       IN (IF c = 34 THEN <<92, 34>>
           ELSE IF c = 92 THEN <<92, 92>>
           ELSE IF c = 10 THEN <<92, 110>>
           ELSE <<c>>) \o Escaped(Tail(s))

Quoted(s) == <<34>> \o Escaped(s) \o <<34>>

\* JSON.stringify of an object whose members are strings.
RECURSIVE MembersText(_)
MembersText(members) ==
  IF members = <<>> THEN <<>>
  ELSE Quoted(Head(members).key) \o <<58>> \o Quoted(Head(members).value.value)
         \o (IF Len(members) > 1 THEN <<44>> ELSE <<>>)
         \o MembersText(Tail(members))

JsonText(object) == <<123>> \o MembersText(object.members) \o <<125>>

\* The base64 alphabet: the character of a sextet, and the sextet of a
\* character (-1 for a character outside the alphabet).
B64Char(i) ==
  IF i < 26 THEN 65 + i
  ELSE IF i < 52 THEN 97 + (i - 26)
  ELSE IF i < 62 THEN 48 + (i - 52)
  ELSE IF i = 62 THEN 43 ELSE 47

B64Index(c) ==
  IF c >= 65 /\ c <= 90 THEN c - 65
  ELSE IF c >= 97 /\ c <= 122 THEN c - 97 + 26
  ELSE IF c >= 48 /\ c <= 57 THEN c - 48 + 52
  ELSE IF c = 43 THEN 62
  ELSE IF c = 47 THEN 63 ELSE -1

\* btoa of a string of bytes: three bytes give four characters, and "=" pads
\* the last group.
RECURSIVE Base64(_)
Base64(bytes) ==
  IF bytes = <<>> THEN <<>>
  ELSE IF Len(bytes) = 1
    THEN <<B64Char(bytes[1] \div 4), B64Char((bytes[1] % 4) * 16), 61, 61>>
  ELSE IF Len(bytes) = 2
    THEN <<B64Char(bytes[1] \div 4),
           B64Char((bytes[1] % 4) * 16 + (bytes[2] \div 16)),
           B64Char((bytes[2] % 16) * 4), 61>>
  ELSE <<B64Char(bytes[1] \div 4),
         B64Char((bytes[1] % 4) * 16 + (bytes[2] \div 16)),
         B64Char((bytes[2] % 16) * 4 + (bytes[3] \div 64)),
         B64Char(bytes[3] % 64)>> \o Base64(SubSeq(bytes, 4, Len(bytes)))

\* btoa: it throws InvalidCharacterError when a code unit is above 255.
btoa(s) ==
  IF \E i \in DOMAIN s : s[i] > 255 THEN Throws("InvalidCharacterError")
  ELSE Str(Base64(s))

\* atob, the bytes of a string of sextets: four give three bytes, and the
\* bits left over in a last group of two or three are dropped.
RECURSIVE Bytes64(_)
Bytes64(sextets) ==
  IF Len(sextets) < 2 THEN <<>>
  ELSE IF Len(sextets) = 2
    THEN <<sextets[1] * 4 + (sextets[2] \div 16)>>
  ELSE IF Len(sextets) = 3
    THEN <<sextets[1] * 4 + (sextets[2] \div 16),
           (sextets[2] % 16) * 16 + (sextets[3] \div 4)>>
  ELSE <<sextets[1] * 4 + (sextets[2] \div 16),
         (sextets[2] % 16) * 16 + (sextets[3] \div 4),
         (sextets[3] % 4) * 64 + sextets[4]>>
         \o Bytes64(SubSeq(sextets, 5, Len(sextets)))

\* atob: one or two "=" at the end of a string whose length is a multiple
\* of four are removed; it throws when the length is then 1 modulo 4 or a
\* character is outside the alphabet.  The strings of the model hold no
\* white space.
atob(s) ==
  LET n == Len(s)
      padding == IF n % 4 = 0 /\ n > 0 /\ s[n] = 61
                   THEN (IF s[n - 1] = 61 THEN 2 ELSE 1) ELSE 0
      body == SubSeq(s, 1, n - padding)
  IN IF \/ Len(body) % 4 = 1
        \/ \E i \in DOMAIN body : B64Index(body[i]) = -1
       THEN Throws("InvalidCharacterError")
       ELSE Str(Bytes64([i \in DOMAIN body |-> B64Index(body[i])]))

\* The hexadecimal digit of a number below 16, and the number of a digit
\* (-1 for another character).
HexDigit(n) == IF n < 10 THEN 48 + n ELSE 55 + n

HexValue(c) ==
  IF c >= 48 /\ c <= 57 THEN c - 48
  ELSE IF c >= 65 /\ c <= 70 THEN c - 55
  ELSE IF c >= 97 /\ c <= 102 THEN c - 87 ELSE -1

\* encodeURIComponent leaves letters, digits and - _ . ! ~ * ' ( ) alone.
Unreserved(c) ==
  \/ c >= 65 /\ c <= 90
  \/ c >= 97 /\ c <= 122
  \/ c >= 48 /\ c <= 57
  \/ c \in {45, 95, 46, 33, 126, 42, 39, 40, 41}

PercentByte(b) == <<37, HexDigit(b \div 16), HexDigit(b % 16)>>

\* The UTF-8 bytes of a code unit that is not a surrogate.
Utf8(c) ==
  IF c < 128 THEN <<c>>
  ELSE IF c < 2048 THEN <<192 + (c \div 64), 128 + (c % 64)>>
  ELSE <<224 + (c \div 4096), 128 + ((c \div 64) % 64), 128 + (c % 64)>>

RECURSIVE PercentBytes(_)
PercentBytes(bytes) ==
  IF bytes = <<>> THEN <<>>
  ELSE PercentByte(Head(bytes)) \o PercentBytes(Tail(bytes))

\* encodeURIComponent.
RECURSIVE encodeURIComponent(_)
encodeURIComponent(s) ==
  IF s = <<>> THEN <<>>
  ELSE (IF Unreserved(Head(s)) THEN <<Head(s)>>
        ELSE PercentBytes(Utf8(Head(s)))) \o encodeURIComponent(Tail(s))

\* The byte of the escape at position i of the string, or -1 when there is
\* no "%" and two hexadecimal digits there.
EscapeAt(s, i) ==
  IF /\ i + 2 <= Len(s)
     /\ s[i] = 37
     /\ HexValue(s[i + 1]) # -1
     /\ HexValue(s[i + 2]) # -1
    THEN HexValue(s[i + 1]) * 16 + HexValue(s[i + 2])
    ELSE -1

\* Whether the escape at position i is a continuation byte of UTF-8.
ContinuesAt(s, i) == EscapeAt(s, i) >= 128 /\ EscapeAt(s, i) <= 191

\* decodeURIComponent from position i on: the decoded code units, or FALSE
\* in ok when an escape is malformed or its bytes are not UTF-8 (URIError).
RECURSIVE Unescaped(_, _)
Unescaped(s, i) ==
  IF i > Len(s) THEN [ok |-> TRUE, value |-> <<>>]
  ELSE IF s[i] # 37
    THEN LET rest == Unescaped(s, i + 1)
         IN [ok |-> rest.ok, value |-> <<s[i]>> \o rest.value]
  ELSE LET b == EscapeAt(s, i)
       IN IF b = -1 THEN [ok |-> FALSE, value |-> <<>>]
          ELSE IF b < 128
            THEN LET rest == Unescaped(s, i + 3)
                 IN [ok |-> rest.ok, value |-> <<b>> \o rest.value]
          ELSE IF b >= 194 /\ b <= 223 /\ ContinuesAt(s, i + 3)
            THEN LET rest == Unescaped(s, i + 6)
                 IN [ok |-> rest.ok,
                     value |-> <<(b - 192) * 64 + (EscapeAt(s, i + 3) - 128)>>
                                 \o rest.value]
          ELSE IF /\ b >= 224 /\ b <= 239
                  /\ ContinuesAt(s, i + 3) /\ ContinuesAt(s, i + 6)
                  /\ (b - 224) * 4096 + (EscapeAt(s, i + 3) - 128) * 64 >= 2048
            THEN LET rest == Unescaped(s, i + 9)
                 IN [ok |-> rest.ok,
                     value |-> <<(b - 224) * 4096
                                   + (EscapeAt(s, i + 3) - 128) * 64
                                   + (EscapeAt(s, i + 6) - 128)>>
                                 \o rest.value]
          ELSE [ok |-> FALSE, value |-> <<>>]

decodeURIComponent(s) ==
  IF Unescaped(s, 1).ok THEN Str(Unescaped(s, 1).value) ELSE Throws("URIError")

\* JSON.parse of a string literal whose opening quote is before position i:
\* the string and the position behind its closing quote, or FALSE in ok.
\* The escapes are those JSON.stringify writes for the strings of the model
\* and the escaped solidus.
RECURSIVE ScanString(_, _)
ScanString(text, i) ==
  IF i > Len(text) THEN [ok |-> FALSE, value |-> <<>>, next |-> i]
  ELSE IF text[i] = 34 THEN [ok |-> TRUE, value |-> <<>>, next |-> i + 1]
  ELSE IF text[i] < 32 THEN [ok |-> FALSE, value |-> <<>>, next |-> i]
  ELSE IF text[i] = 92
    THEN IF i + 1 > Len(text) \/ text[i + 1] \notin {34, 92, 47, 110}
           THEN [ok |-> FALSE, value |-> <<>>, next |-> i]
           ELSE LET rest == ScanString(text, i + 2)
                    c == IF text[i + 1] = 110 THEN 10 ELSE text[i + 1]
                IN [ok |-> rest.ok, value |-> <<c>> \o rest.value,
                    next |-> rest.next]
  ELSE LET rest == ScanString(text, i + 1)
       IN [ok |-> rest.ok, value |-> <<text[i]>> \o rest.value,
           next |-> rest.next]

\* Whether the character at position i of the text is c.
At(text, i, c) == i <= Len(text) /\ text[i] = c

\* JSON.parse of the members of an object from position i on, behind "{" or
\* ",": the members and the position behind "}".  The values are strings.
RECURSIVE ScanMembers(_, _)
ScanMembers(text, i) ==
  LET key == ScanString(text, i + 1)
      value == ScanString(text, key.next + 2)
      rest == ScanMembers(text, value.next + 1)
      failed == [ok |-> FALSE, value |-> <<>>, next |-> i]
  IN IF ~At(text, i, 34) \/ ~key.ok THEN failed
     ELSE IF ~At(text, key.next, 58) \/ ~At(text, key.next + 1, 34)
       THEN failed
     ELSE IF ~value.ok THEN failed
     ELSE IF At(text, value.next, 125)
       THEN [ok |-> TRUE,
             value |-> <<Member(key.value, Str(value.value))>>,
             next |-> value.next + 1]
     ELSE IF At(text, value.next, 44) /\ rest.ok
       THEN [ok |-> TRUE,
             value |-> <<Member(key.value, Str(value.value))>> \o rest.value,
             next |-> rest.next]
     ELSE failed

\* Whether every character of the text is a digit.
IsDigits(text) ==
  text # <<>> /\ \A i \in DOMAIN text : text[i] >= 48 /\ text[i] <= 57

RECURSIVE NumberOf(_)
NumberOf(text) ==
  IF text = <<>> THEN 0
  ELSE NumberOf(SubSeq(text, 1, Len(text) - 1)) * 10
         + (text[Len(text)] - 48)

\* JSON.parse of a text without white space: null, an unsigned integer
\* without a leading zero, a string, or an object whose members are strings
\* with distinct keys.  Every other text of the model is no JSON: it throws
\* SyntaxError.
JsonParse(text) ==
  IF text = <<110, 117, 108, 108>> THEN JsNull
  ELSE IF IsDigits(text) /\ (Len(text) = 1 \/ text[1] # 48)
    THEN Num(NumberOf(text))
  ELSE IF At(text, 1, 34)
    THEN LET string == ScanString(text, 2)
         IN IF string.ok /\ string.next = Len(text) + 1
              THEN Str(string.value) ELSE Throws("SyntaxError")
  ELSE IF text = <<123, 125>> THEN Obj(<<>>)
  ELSE IF At(text, 1, 123)
    THEN LET members == ScanMembers(text, 2)
         IN IF members.ok /\ members.next = Len(text) + 1
              THEN Obj(members.value) ELSE Throws("SyntaxError")
  ELSE Throws("SyntaxError")

\* URLDataTranscoder.compile: the token, or null when a step throws.
compile(object) ==
  LET jsonString == JsonText(object)
      base64String == btoa(jsonString)
  IN IF base64String.type = "thrown" THEN JsNull
     ELSE Str(encodeURIComponent(base64String.value))

\* decompile as it would be if JSON.parse were called outside the try block.
decompileParsesUnguarded(token) ==
  LET base64String == decodeURIComponent(token.value)
      jsonString == atob(base64String.value)
      parsed == JsonParse(jsonString.value)
  IN IF token.type # "string" \/ token.value = <<>> THEN JsNull
     ELSE IF base64String.type = "thrown" THEN JsNull
     ELSE IF jsonString.type = "thrown" THEN JsNull
     ELSE parsed

\* URLDataTranscoder.decompile: the parsed value, or null when the argument
\* is no string, is empty, or a step throws.
decompile(token) ==
  LET base64String == decodeURIComponent(token.value)
      jsonString == atob(base64String.value)
      parsed == JsonParse(jsonString.value)
  IN IF token.type # "string" \/ token.value = <<>> THEN JsNull
     ELSE IF base64String.type = "thrown" THEN JsNull
     ELSE IF jsonString.type = "thrown" THEN JsNull
     ELSE IF parsed.type = "thrown" THEN JsNull
     ELSE parsed

\* object[key] of a parsed value: the value of the member, or undefined.
MemberOf(object, key) ==
  IF object.type = "object" /\ \E i \in DOMAIN object.members :
                                 object.members[i].key = key
    THEN object.members[CHOOSE i \in DOMAIN object.members :
                          object.members[i].key = key].value
    ELSE [type |-> "undefined"]

\* editorPageOnOpen: decodedData && typeof decodedData.content === 'string'
\* && typeof decodedData.version === 'string'.
isSharedData(decodedData) ==
  /\ decodedData.type # "null"
  /\ ~(decodedData.type = "number" /\ decodedData.value = 0)
  /\ ~(decodedData.type = "string" /\ decodedData.value = <<>>)
  /\ MemberOf(decodedData, ContentKey).type = "string"
  /\ MemberOf(decodedData, VersionKey).type = "string"

\* The characters of the contents of the model: the quote, the backslash,
\* "a", a Latin-1 letter above 127, and a character above 255.
ContentChars == {34, 92, 97, 233, 20013}

\* The strings of at most MaxLen of these characters.
SharedContents == UNION {[1..n -> ContentChars] : n \in 0..MaxLen}

\* The versions of the payloads: "0.3.1" and the empty string.
PayloadVersions == {<<48, 46, 51, 46, 49>>, <<>>}

Payloads ==
  {SharePayload(text, version) :
     text \in SharedContents, version \in PayloadVersions}

\* Texts that are JSON and no payload, and one that is no JSON.
OtherTexts ==
  {<<53>>, <<110, 117, 108, 108>>, <<123, 125>>,
   JsonText(Obj(<<Member(ContentKey, Str(<<97>>))>>)),
   <<123>>}

\* The tokens a link may carry besides those compile returns: the encodings
\* of the other texts, a malformed escape, an escape that is not UTF-8,
\* characters outside the base64 alphabet, a length base64 cannot have, and
\* the empty string.
ForeignTokens ==
  {Str(encodeURIComponent(Base64(text))) : text \in OtherTexts}
    \cup {Str(<<37>>), Str(<<37, 69, 52>>), Str(<<33, 33, 33, 33>>),
          Str(<<65>>), Str(<<>>)}

\* The codec before its first call; the store and the editor page are not
\* in use.
InitCodec ==
  /\ SessionAtStart
  /\ shareParam = NoShare
  /\ openRequest = NullId
  /\ store = EmptyStore
  /\ traced = FALSE
  /\ capacity = Quota
  /\ localStorage = NoItems
  /\ clock = 0
  /\ call = NoCall
  /\ CodecIdle

\* handleShare calls compile with a payload.
Compile ==
  /\ \E object \in Payloads :
       /\ data' = object
       /\ encodedString' = compile(object)
  /\ originalData' = NotYet
  /\ loadedFromUrl' = FALSE
  /\ UNCHANGED <<sessionVars, fsVars>>

\* A link arrives that carries a token compile did not make.
LinkArrives ==
  /\ \E token \in ForeignTokens :
       encodedString' = token
  /\ data' = NotYet
  /\ originalData' = NotYet
  /\ loadedFromUrl' = FALSE
  /\ UNCHANGED <<sessionVars, fsVars>>

\* A caller passes the token to decompile.
Decompile ==
  /\ encodedString # NotYet
  /\ originalData' = decompile(encodedString)
  /\ UNCHANGED <<data, encodedString, loadedFromUrl, sessionVars, fsVars>>

\* editorPageOnOpen with the token as the value of the "data" parameter: it
\* decodes the value, passes it to decompile and takes the result for the
\* shared file when it has the form of one.  An error thrown on the way is
\* caught.
PageOpensLink ==
  /\ encodedString \notin {NotYet, JsNull}
  /\ encodedString.value # <<>>
  /\ LET decompressedDataString == decodeURIComponent(encodedString.value)
         decodedData == decompile(decompressedDataString)
     IN IF decompressedDataString.type = "thrown"
          THEN /\ loadedFromUrl' = FALSE
               /\ originalData' = NotYet
          ELSE /\ loadedFromUrl' = isSharedData(decodedData)
               /\ originalData' = decodedData
  /\ UNCHANGED <<data, encodedString, sessionVars, fsVars>>

NextCodec ==
  \/ Compile
  \/ LinkArrives
  \/ Decompile
  \/ PageOpensLink

\* The share codec as its callers drive it.
SpecCodec == InitCodec /\ [][NextCodec]_vars

(***************************************************************************)
(* Properties.                                                             *)
(***************************************************************************)
\* The steps in which the autosave timer fired and performAutosave ran.
AutosaveLabels == {"autosave skipped", "autosave saved", "autosave failed"}

\* C1: in every state in which the session is bound to a record and the text
\* in the editor differs from the text last saved to that record, isDirty is
\* true.  Stated for the states in which the editor is shown and no modal,
\* file dialog or file read is pending, that is, also after the user
\* confirmed a navigation prompt and then cancelled the modal or the dialog.
C1_DirtyWhenUnsaved ==
  ( /\ page = "editor" /\ modal = "hidden" /\ ~fileDialog /\ reader = NoReader
    /\ currentFileId # NullId
    /\ store[currentFileId].content # content ) => isDirty

\* C2: at most one autosave timer is pending in every reachable state, and
\* it is the one autosaveTimeoutId names: scheduling an autosave cancels the
\* timer scheduled before.
C2_OneAutosaveTimer ==
  /\ Cardinality(timers) <= 1
  /\ \A t \in timers : t.handle = autosaveTimeoutId

\* An autosave was scheduled while the timer of an earlier edit was pending.
C2_Rescheduled ==
  /\ deb = "two"
  /\ \E t \in timers : t.handle = autosaveTimeoutId /\ t.remaining = AUTOSAVE_DELAY

\* C3: when the autosave timer fires, the store is written only if at that
\* moment the session is bound, isDirty is true and no version load is in
\* flight; a firing at which one of the three fails leaves the store as it is
\* and calls no update.
C3_FireWritesOnlyWhenEligible ==
  [][last' \in AutosaveLabels =>
       IF currentFileId # NullId /\ isDirty /\ ~isBoardLoading
         THEN last' \in {"autosave saved", "autosave failed"}
         ELSE last' = "autosave skipped" /\ store' = store]_vars

\* The timer fired for a bound, dirty session while a version was loading.
C3_FiredWhileLoading ==
  /\ last = "autosave skipped"
  /\ currentFileId # NullId /\ isDirty /\ isBoardLoading

\* C4: for a bound session with no load in flight, after two content changes
\* less than AUTOSAVE_DELAY apart with nothing but time in between, exactly
\* one timer is pending and it is due AUTOSAVE_DELAY after the second change;
\* when it fires, the one update call is made AUTOSAVE_DELAY after the second
\* change, no timer is left, and what a successful call stored is the text
\* of the second change.
C4_DebouncedAutosave ==
  /\ deb = "two" =>
        timers = {[handle |-> autosaveTimeoutId,
                   remaining |-> AUTOSAVE_DELAY - sinceEdit]}
  /\ deb = "fired" =>
        /\ last \in {"autosave saved", "autosave failed"}
        /\ sinceEdit = AUTOSAVE_DELAY
        /\ timers = {}
        /\ last = "autosave saved" => store[currentFileId].content = content

\* The autosave of two close edits has fired and stored the text.
C4_DebounceFired == deb = "fired" /\ last = "autosave saved"

\* C5: every write of a firing autosave stores the text the editor holds at
\* that moment together with the version selected at that moment, and a
\* firing while a version is loading writes nothing.
C5_WritesSelectedVersion ==
  [][last' \in AutosaveLabels =>
       /\ last' = "autosave saved" =>
            /\ ~isBoardLoading
            /\ store' = [store EXCEPT ![currentFileId].content = content,
                                      ![currentFileId].boardVersion = selectorValue]
       /\ isBoardLoading => store' = store]_vars

\* An autosave stored a version the user had switched to, with edited text.
C5_SavedSwitchedVersion ==
  /\ last = "autosave saved"
  /\ store[currentFileId].boardVersion = selectorValue
  /\ selectorValue # LATEST_TRIDECCO_VERSION
  /\ store[currentFileId].content # DEFAULT_EDITOR_CONTENT

\* C6: a firing autosave whose update succeeds leaves isDirty false; one
\* whose update throws leaves isDirty true, leaves currentFileId,
\* currentFileName and currentBoardVersion as they were, and leaves no
\* autosave timer pending.
C6_AutosaveOutcome ==
  [][/\ last' = "autosave saved" => ~isDirty'
     /\ last' = "autosave failed" =>
          /\ isDirty /\ isDirty'
          /\ UNCHANGED <<currentFileId, currentFileName, currentBoardVersion>>
          /\ timers' = {}
          /\ autosaveTimeoutId' = NullHandle]_vars

\* An autosave has failed: the session is still dirty and nothing is pending.
C6_AutosaveFailed ==
  /\ last = "autosave failed"
  /\ currentFileId # NullId /\ isDirty /\ timers = {}

\* C7: whenever the document is replaced by a template or by a file read
\* from the computer (the two replacements the toolbar defers to a later
\* event), isDirty is false at that moment or the user confirmed the
\* unsaved-changes prompt of the toolbar action that led to it.
C7_ReplacedOnlyCleanOrConfirmed ==
  [][/\ ModalPickTemplate => (~isDirty \/ navConfirmed.modal)
     /\ ReaderLoaded => (~isDirty \/ navConfirmed.file)]_vars

\* C8: at most one version load is in flight in every reachable state; a
\* handler that asks for a load while one is in flight starts no second
\* script and changes neither isBoardLoading nor currentBoardVersion; and
\* handleVersionChange does nothing when a load is in flight or when the
\* selected version is the current one.
C8_OneLoadInFlight ==
  /\ [](/\ Cardinality(scripts) <= 1
        /\ isBoardLoading <=> scripts # {}
        /\ \A version \in Supported :
             (isBoardLoading \/ version = currentBoardVersion) =>
               handleVersionChange([Cur EXCEPT !.selectorValue = version])
                 = [Cur EXCEPT !.selectorValue = version])
  /\ [][last' = "load rejected" =>
          UNCHANGED <<scripts, isBoardLoading, currentBoardVersion>>]_vars

\* A handler asked for a load while one was in flight.
C8_LoadRejected ==
  last = "load rejected" /\ isBoardLoading /\ Cardinality(scripts) = 1

\* C9: a version request that fails changes neither currentBoardVersion nor
\* isDirty and leaves isBoardLoading false: the request of an unsupported
\* version changes nothing but the selection, and the error of the loader
\* only ends the load.
C9_FailedLoadKeepsState ==
  /\ [](~isBoardLoading =>
          LET r == handleVersionChange(
                     [Cur EXCEPT !.selectorValue = UnsupportedVersion])
          IN /\ r.currentBoardVersion = currentBoardVersion
             /\ r.isDirty = isDirty
             /\ ~r.isBoardLoading
             /\ r.scripts = scripts)
  /\ [][last' = "load failed" =>
          /\ currentBoardVersion' = currentBoardVersion
          /\ isDirty' = isDirty
          /\ ~isBoardLoading']_vars

\* The load of a version failed in a dirty session that had a version loaded.
C9_LoadFailedWhileDirty ==
  /\ last = "load failed"
  /\ isDirty /\ currentBoardVersion # NullVersion /\ ~isBoardLoading

\* C10: after a failed load the selector shows the version whose load
\* succeeded last.
C10_SelectorRevertsToLastLoaded ==
  (last = "load failed" /\ lastLoaded # NullVersion) =>
    selectorValue = lastLoaded

\* C11: a failed version change leaves the persisted boardVersion alone: the
\* failure writes nothing to the store, and the version the next save would
\* persist is not the version whose load failed.
C11_FailedChangeNotPersisted ==
  [][\A tag \in scripts :
       (tag.awaited /\ last' = "load failed" /\ tag \notin scripts') =>
         /\ store' = store
         /\ FirstTruthy(selectorValue', currentBoardVersion',
                        LATEST_TRIDECCO_VERSION) # tag.version]_vars

\* C12: when a load started by a version change completes, the loaded
\* version is current and no load is in flight; a bound session is dirty with
\* one autosave pending a full AUTOSAVE_DELAY ahead; an unbound session keeps
\* its dirty flag and has no autosave scheduled.
C12_VersionChangeSuccess ==
  [][\A tag \in scripts :
       (tag.awaited /\ last' = "version changed" /\ tag \notin scripts') =>
         /\ currentBoardVersion' = tag.version
         /\ ~isBoardLoading'
         /\ currentFileId' = currentFileId
         /\ currentFileId # NullId =>
              /\ isDirty'
              /\ timers' = {[handle |-> autosaveTimeoutId',
                             remaining |-> AUTOSAVE_DELAY]}
         /\ currentFileId = NullId =>
              /\ isDirty' = isDirty
              /\ timers' = {}
              /\ autosaveTimeoutId' = NullHandle]_vars

\* A version change completed in a bound session whose record holds another
\* version.
C12_BoundVersionChanged ==
  /\ last = "version changed"
  /\ currentFileId # NullId
  /\ store[currentFileId].boardVersion # currentBoardVersion

\* C13: a step that opens a stored record binds the session to it, with the
\* record's name and text and a clean dirty flag, and leaves a load of the
\* record's boardVersion (the newest supported version when that is missing
\* or unsupported) in flight, whatever the session was doing before.
C13_OpenLoadsRecordVersion ==
  [][((HomeOpenRecent \/ ModalPickFile \/ ShareTimerFires)
        /\ currentFileId' # NullId /\ ~isDirty') =>
       LET r == store[currentFileId']
           versionToLoad == IF r.boardVersion \in Supported
                              THEN r.boardVersion
                              ELSE LATEST_TRIDECCO_VERSION
       IN /\ r.kind = "file"
          /\ currentFileName' = r.name
          /\ content' = r.content
          /\ \E tag \in scripts' : tag.version = versionToLoad]_vars

\* C14: an open of a record that is absent or undecodable ends unbound and
\* clean and writes nothing to the store.  The open that fails in this model
\* is the one of a stale handoff key; the handler is also applied, in every
\* reachable state, to a store in which the record is absent or undecodable.
C14_FailedOpenResets ==
  /\ [](\A fileId \in FileIds, gone \in {AbsentFile, CorruptFile} :
          LET s == [Cur EXCEPT !.store[fileId] = gone]
              t == loadSpecificIdeFile(s, fileId)
          IN /\ t.currentFileId = NullId
             /\ ~t.isDirty
             /\ t.store = s.store)
  /\ [][last' = "open failed" =>
          /\ currentFileId' = NullId
          /\ ~isDirty'
          /\ store' = store]_vars

\* The open of a stale handoff key has failed.
C14_OpenFailed ==
  /\ last = "open failed"
  /\ currentFileId = NullId
  /\ currentFileName = Untitled
  /\ openRequest = NullId

C16_SaveAsStoresLoadedVersion ==
  [][(last' = "saved as" /\ lastLoaded # NullVersion) =>
       store'[currentFileId'].boardVersion = lastLoaded]_vars

\* C17: a save-as whose prompt is cancelled or gives an empty or blank name
\* writes nothing to the store and leaves the session as it was: the bound
\* file, its name, the board version, the dirty flag and the pending
\* autosave.
C17_RejectedSaveChangesNothing ==
  [][last' = "save rejected" =>
       /\ store' = store
       /\ UNCHANGED <<currentFileId, currentFileName, currentBoardVersion,
                      isDirty, autosaveTimeoutId, timers, content,
                      selectorValue>>]_vars

\* A save-as was rejected while an autosave was pending.
C17_RejectedWithAutosavePending ==
  /\ last = "save rejected"
  /\ isDirty
  /\ \E t \in timers : t.handle = autosaveTimeoutId

\* C18: a save-as the store rejects leaves the session as it was: the bound
\* file, its name, the board version, the dirty flag and the pending
\* autosave task.
C18_FailedSaveChangesNothing ==
  [][last' = "save failed" =>
       UNCHANGED <<currentFileId, currentFileName, currentBoardVersion,
                   isDirty, autosaveTimeoutId, timers>>]_vars

\* C19: a content change in a session that is unbound or loading a version
\* leaves the session dirty, schedules no autosave and writes nothing; and
\* from an unbound session only a save-as changes the store.
C19_EditWithoutAutosave ==
  /\ [][last' = "edit without autosave" =>
          /\ isDirty'
          /\ timers' \subseteq timers
          /\ autosaveTimeoutId' \in {autosaveTimeoutId, NullHandle}
          /\ store' = store]_vars
  /\ [][(currentFileId = NullId /\ store' # store) =>
          last' = "saved as"]_vars

\* The text of a bound session was edited while a version was loading, and
\* no autosave is scheduled.
C19_EditedWhileLoading ==
  /\ last = "edit without autosave"
  /\ currentFileId # NullId
  /\ isBoardLoading
  /\ isDirty
  /\ timers = {}

\* The step leaves the session unbound and clean with no autosave pending,
\* writes nothing, shows the given version in the selector and, unless a
\* load was in flight, has started a load of it.
ResetsTo(version) ==
  /\ currentFileId' = NullId
  /\ ~isDirty'
  /\ timers' = {}
  /\ store' = store
  /\ selectorValue' = version
  /\ ~isBoardLoading => scripts' = {[version |-> version, awaited |-> FALSE,
                                   boundTo |-> NullId]}

\* C20: create new (from the home page or the toolbar), a file read from the
\* computer, a template and a share link each leave the session unbound and
\* clean, request the supplied version if it is supported and the newest
\* supported version otherwise, and write nothing to the store.
C20_ResetsUnbound ==
  [][/\ HomeCreateNew => ResetsTo(LATEST_TRIDECCO_VERSION)
     /\ (ToolbarNewEmpty /\ (~isDirty \/ ~isDirty')) =>
          ResetsTo(LATEST_TRIDECCO_VERSION)
     /\ ReaderLoaded =>
          /\ ResetsTo(LATEST_TRIDECCO_VERSION)
          /\ content' = reader.content
     /\ ModalPickTemplate => ResetsTo(LATEST_TRIDECCO_VERSION)
     /\ (ShareTimerFires /\ shareParam.kind = "ok") =>
          /\ ResetsTo(IF shareParam.version \in Supported
                        THEN shareParam.version
                        ELSE LATEST_TRIDECCO_VERSION)
          /\ content' = shareParam.content]_vars

\* A share link that names a supported version other than the newest has
\* been loaded.
C20_ShareLinkLoaded ==
  /\ currentFileName = SharedFileName
  /\ currentFileId = NullId
  /\ ~isDirty
  /\ selectorValue # LATEST_TRIDECCO_VERSION
  /\ scripts = {[version |-> selectorValue, awaited |-> FALSE,
                boundTo |-> NullId]}

\* C21: once the editor page has been initialized the handoff key is gone
\* from localStorage, whether the record was opened, was missing, or a share
\* link was loaded instead; the step that initializes the page never leaves
\* the key behind.
C21_HandoffKeyConsumed ==
  /\ [](page = "editor" => openRequest = NullId)
  /\ [][(HomeCreateNew \/ HomeOpenRecent \/ ShareTimerFires) =>
          openRequest' = NullId]_vars

\* The editor page was initialized with a handoff key that named a missing
\* record, next to a share parameter that could not be decoded.
C21_StaleKeyConsumed ==
  /\ last = "open failed"
  /\ page = "editor"
  /\ shareParam = NoShare
  /\ openRequest = NullId
  /\ isBoardLoading

\* C22: when the page is initialized with a share parameter, whatever it
\* carries, the record a pending handoff key names is not opened: the session
\* ends unbound.
C22_ShareParameterWins ==
  [][(ShareTimerFires /\ shareParam # NoShare) =>
       currentFileId' = NullId]_vars

\* C23: a save to the computer leaves the session as it was (the bound file,
\* its name, the board version, the dirty flag, the loading flag, the pending
\* autosave) and creates or modifies no record.
C23_SaveToComputerChangesNothing ==
  [][last' = "saved to computer" =>
       /\ store' = store
       /\ UNCHANGED <<currentFileId, currentFileName, currentBoardVersion,
                      isDirty, isBoardLoading, autosaveTimeoutId, timers,
                      content, selectorValue, scripts>>]_vars

\* The text was saved to the computer while an edit of a bound file waited
\* for its autosave.
C23_SavedWithAutosavePending ==
  /\ last = "saved to computer"
  /\ currentFileId # NullId
  /\ isDirty
  /\ \E t \in timers : t.handle = autosaveTimeoutId

\* The keys of the records that were created under the storage name: the key
\* is the prefix of the name followed by the id in the record.
CreatedUnder(storageName) ==
  {key \in DOMAIN localStorage :
     /\ localStorage[key] # Bytes
     /\ key = getStorageKey(storageName, localStorage[key].data.id)}

\* C24: clearAll and listFiles of the store of one name leave alone the
\* records of the store of any other name: clearAll removes the records
\* created under its own name, returns their number and keeps every record
\* created under another name; listFiles reports none of those.
C24_NamespacesIsolated ==
  \A own \in StorageNames :
    LET r == fsClearAll(localStorage, own)
    IN /\ r.removedCount = Cardinality(OwnKeys(localStorage, own))
       /\ \A key \in CreatedUnder(own) : key \notin DOMAIN r.items
       /\ \A other \in StorageNames \ {own} :
            /\ \A key \in CreatedUnder(other) :
                 /\ key \in DOMAIN r.items
                 /\ r.items[key] = localStorage[key]
            /\ \A entry \in fsListFiles(localStorage, own) :
                 getStorageKey(other, entry.id) \notin CreatedUnder(other)

\* The keys whose stored value is the JSON text of a record.
Records(items) == {key \in DOMAIN items : items[key] # Bytes}

\* C25: in every state of the store every record has updatedAt >= createdAt,
\* after any creates and updates, whatever the patches carry.
C25_UpdatedNotBeforeCreated ==
  \A key \in Records(localStorage) :
    localStorage[key].data.metadata.updatedAt
      >= localStorage[key].data.metadata.createdAt

\* C26: no call changes the createdAt of a record that is there before and
\* after it.
C26_CreatedAtNeverChanges ==
  [][\A key \in Records(localStorage) \cap Records(localStorage') :
       localStorage'[key].data.metadata.createdAt
         = localStorage[key].data.metadata.createdAt]_vars

\* C27: an update that fails leaves localStorage as it was.  An update of an
\* id that is not there, of a key whose value is not JSON, or with an empty
\* name in the patch fails and writes and removes nothing, whatever else the
\* patch carries.
C27_FailedUpdateChangesNothing ==
  /\ [](\A storageName \in StorageNames, updates \in Patches,
           room \in BOOLEAN :
          \A fileId \in KnownIds(storageName) :
            LET stored == GetItem(localStorage,
                                  getStorageKey(storageName, fileId))
                r == fsUpdateFile(localStorage, clock, storageName, fileId,
                                  updates, room)
            IN (stored = Null \/ stored = Bytes \/ Get(updates, "name") = "")
                 => ~r.ok /\ r.items = localStorage)
  /\ [][(call'.op = "update" /\ ~call'.ok) =>
          localStorage' = localStorage]_vars

\* An update of a record failed for the empty name in its patch.
C27_UpdateWithEmptyNameFailed ==
  /\ call.op = "update"
  /\ call.error = "File name cannot be empty."
  /\ Records(localStorage) # {}

\* The record load returns after update(fileId, {content: "c2"}) is called
\* on localStorage as it is, at the present time.
LoadAfterContentUpdate(storageName, fileId) ==
  fsLoadFile(fsUpdateFile(localStorage, clock, storageName, fileId,
                          Property("content", "c2"), TRUE).items,
             storageName, fileId).value

\* The ids of the records load returns under the storage name.
LoadableIds(storageName) ==
  {fileId \in KnownIds(storageName) :
     GetItem(localStorage, getStorageKey(storageName, fileId))
       \notin {Null, Bytes}}

\* C28 as stated: update(id, {content: c2}) and then load(id) give content
\* c2, the name and boardVersion of before, and an updatedAt strictly greater
\* than the one before.
C28_UpdateThenLoadLater ==
  \A storageName \in StorageNames :
    \A fileId \in LoadableIds(storageName) :
      LET before == fsLoadFile(localStorage, storageName, fileId).value
          after == LoadAfterContentUpdate(storageName, fileId)
      IN /\ after.content = "c2"
         /\ after.name = before.name
         /\ Get(after, "boardVersion") = Get(before, "boardVersion")
         /\ after.metadata.updatedAt > before.metadata.updatedAt

\* C28: update(id, {content: c2}) and then load(id) give content c2, the name
\* and boardVersion of before, and an updatedAt that is the time of the
\* update and not less than the one before.
C28_UpdateThenLoad ==
  \A storageName \in StorageNames :
    \A fileId \in LoadableIds(storageName) :
      LET before == fsLoadFile(localStorage, storageName, fileId).value
          after == LoadAfterContentUpdate(storageName, fileId)
      IN /\ after.content = "c2"
         /\ after.name = before.name
         /\ Get(after, "boardVersion") = Get(before, "boardVersion")
         /\ after.metadata.updatedAt = clock
         /\ after.metadata.updatedAt >= before.metadata.updatedAt

\* An update has stored the content c2 in a record that keeps the name it was
\* created with, in the millisecond of its creation.
C28_UpdatedInSameMillisecond ==
  /\ call.op = "update"
  /\ call.ok
  /\ \E key \in Records(localStorage) :
       /\ localStorage[key].data.content = "c2"
       /\ localStorage[key].data.name = "a"
       /\ localStorage[key].data.id[1] = ToString(clock)
       /\ localStorage[key].data.metadata.updatedAt = clock

\* The contents a caller may pass to createFile: the default and a text.
AnyText == {"", FsText}

\* C29: for every non-empty name, content and version, createFile returns an
\* id under which loadFile returns a record with that id, name, content and
\* boardVersion, whose createdAt equals its updatedAt.
C29_CreateThenLoad ==
  \A storageName \in StorageNames, name \in FsNames \ {""}, text \in AnyText,
     boardVersion \in FsVersions, randomPart \in RandomParts :
    LET created == fsCreateFile(localStorage, clock, storageName, name, text,
                                boardVersion, randomPart, TRUE)
        loaded == fsLoadFile(created.items, storageName, created.id)
    IN /\ created.ok
       /\ loaded.ok
       /\ loaded.value # Null
       /\ loaded.value.id = created.id
       /\ loaded.value.name = name
       /\ loaded.value.content = text
       /\ Get(loaded.value, "boardVersion") = boardVersion
       /\ loaded.value.metadata.createdAt = loaded.value.metadata.updatedAt

\* A record was created without a version in this millisecond: its text has
\* no boardVersion, and load returns it with both timestamps the same.
C29_CreatedWithoutVersion ==
  /\ call.op = "create"
  /\ call.ok
  /\ \E storageName \in StorageNames :
       \E fileId \in LoadableIds(storageName) :
         LET loaded == fsLoadFile(localStorage, storageName, fileId).value
         IN /\ "boardVersion" \notin DOMAIN loaded
            /\ loaded.id = generateUniqueId(clock, "r1")
            /\ loaded.metadata.createdAt = clock
            /\ loaded.metadata.updatedAt = clock

\* C30: the name of a stored record is never empty, and a create or an update
\* that fails for an empty name writes nothing.
C30_NameNeverEmpty ==
  /\ [](\A key \in Records(localStorage) : localStorage[key].data.name # "")
  /\ [][(call'.error = "File name cannot be empty.") =>
          localStorage' = localStorage]_vars

\* A create with an empty name failed while a record was in the store.
C30_CreateWithEmptyNameFailed ==
  /\ call.op = "create"
  /\ call.error = "File name cannot be empty."
  /\ Records(localStorage) # {}

\* The keys under the prefix of the storage name whose record listFiles
\* takes for well-formed.
WellFormedKeys(storageName) ==
  {key \in OwnKeys(localStorage, storageName) : WellFormed(localStorage[key])}

\* C31: what listFiles returned has one entry (id, name, boardVersion,
\* metadata, no content) for every well-formed record under the prefix and
\* none for an entry that is not JSON or lacks a name or metadata, newest
\* createdAt first.
C31_ListNewestFirst ==
  call.op = "list" =>
    LET files == call.files
        keys == WellFormedKeys(call.storageName)
    IN /\ Len(files) = Cardinality(keys)
       /\ \A key \in keys :
            \E i \in DOMAIN files : files[i] = Summary(localStorage[key].data)
       /\ \A i \in DOMAIN files :
            /\ DOMAIN files[i] = {"id", "name", "boardVersion", "metadata"}
            /\ \E key \in keys : files[i] = Summary(localStorage[key].data)
       /\ \A i, j \in DOMAIN files :
            i < j => files[i].metadata.createdAt >= files[j].metadata.createdAt

\* Two records created at different times were listed, newest first, while
\* a record without a name or without metadata was under the prefix.
C31_ListedTwoBesideLeftover ==
  /\ call.op = "list"
  /\ Len(call.files) = 2
  /\ call.files[1].metadata.createdAt > call.files[2].metadata.createdAt
  /\ OldKey \in DOMAIN localStorage
  /\ localStorage[OldKey] # Bytes

\* The step is a createFile that returned: no other step leaves the last
\* call a create and the clock as it was.
CreateReturned == call'.op = "create" /\ call'.ok /\ clock' = clock

\* C39 as stated: a create that returns adds exactly one new key and leaves
\* every stored value as it was; the id it generates is that of no stored
\* record.
C39_CreateAddsNewKey ==
  [][CreateReturned =>
       /\ \E key \in DOMAIN localStorage' \ DOMAIN localStorage :
            DOMAIN localStorage' = DOMAIN localStorage \cup {key}
       /\ \A key \in DOMAIN localStorage :
            localStorage'[key] = localStorage[key]]_vars

\* C39: a create that returns writes exactly one key, that of the id it
\* generates, and leaves the value of every other key as it was.  The key is
\* new unless a record under it was created in this millisecond with the
\* same random part; that record is replaced.
C39_CreateWritesOneKey ==
  [][CreateReturned =>
       \E storageName \in StorageNames, randomPart \in RandomParts :
         LET fileId == generateUniqueId(clock, randomPart)
             key == getStorageKey(storageName, fileId)
         IN /\ DOMAIN localStorage' = DOMAIN localStorage \cup {key}
            /\ localStorage'[key].data.id = fileId
            /\ \A other \in DOMAIN localStorage \ {key} :
                 localStorage'[other] = localStorage[other]
            /\ key \in DOMAIN localStorage =>
                 localStorage[key].data.id[1] = ToString(clock)]_vars

\* A create has replaced a record that was created in the same millisecond:
\* the store holds a record without a version where it held one with.
C39_CreateReplacedRecord ==
  /\ call.op = "create"
  /\ call.ok
  /\ ~call.fresh
  /\ \E key \in Records(localStorage) :
       "boardVersion" \notin DOMAIN localStorage[key].data

\* C32: what decompile returns for the token compile made of a payload is
\* that payload, and compile does not return null for a payload.
C32_RoundTrip ==
  data # NotYet =>
    /\ encodedString # JsNull
    /\ originalData # NotYet => originalData = data

\* A value with the form of a payload: an object whose content and version
\* are strings.
IsPayload(value) ==
  /\ value.type = "object"
  /\ \E i \in DOMAIN value.members :
       /\ value.members[i].key = ContentKey
       /\ value.members[i].value.type = "string"
  /\ \E i \in DOMAIN value.members :
       /\ value.members[i].key = VersionKey
       /\ value.members[i].value.type = "string"

C33_MalformedGaveNull ==
  /\ encodedString = Str(<<33, 33, 33, 33>>)
  /\ originalData = JsNull

(***************************************************************************)
(* C38: whenever an autosave timer is pending, the session is bound and    *)
(* dirty, and every step that changes the binding leaves no timer pending, *)
(* so a timer armed for one record never fires on another.                 *)
(***************************************************************************)
AutosavePending == \E t \in timers : t.handle = autosaveTimeoutId

C37_CurrentVersionWasLoaded ==
  (traced /\ lastLoaded = NullVersion) => currentBoardVersion = NullVersion

(***************************************************************************)
(* C36: after exit, while the editor page is not shown, no step writes to  *)
(* the store.                                                              *)
(***************************************************************************)
C36_NoWriteAfterExit ==
  [][(page # "editor" /\ page' # "editor") => store' = store]_vars

(***************************************************************************)
(* C35: a version change requested while the session was bound to one      *)
(* record, whose load completes when the session is bound to another,      *)
(* does not mark that other record's session dirty and arms no autosave    *)
(* for it.                                                                 *)
(***************************************************************************)
C35_LateLoadLeavesOtherRecord ==
  [][\A tag \in scripts :
       ( /\ tag \notin scripts'
         /\ last' = "version changed"
         /\ tag.boundTo # NullId
         /\ currentFileId \notin {NullId, tag.boundTo} )
       => (isDirty' = isDirty /\ timers' = timers)]_vars

(***************************************************************************)
(* C34: once the user has stopped after an edit of a bound document, the   *)
(* edited text is eventually in the bound record with isDirty false,       *)
(* unless a store update failed.                                           *)
(***************************************************************************)
EditPersisted ==
  /\ currentFileId # NullId
  /\ ~isDirty
  /\ store[currentFileId].kind = "file"
  /\ store[currentFileId].content = content

C34_EditEventuallyPersisted ==
  userGone ~> (EditPersisted \/ last = "autosave failed")

(***************************************************************************)
(* C40: a version load that was started ends, by load or by error, with    *)
(* isBoardLoading cleared; a load is in flight exactly while the flag is   *)
(* set, and once it is cleared the selector is enabled, so that a new      *)
(* version change is accepted.                                             *)
(***************************************************************************)
C40_LoadEnds ==
  /\ [](isBoardLoading <=> scripts # {})
  /\ [](isBoardLoading <=> selectorDisabled)
  /\ isBoardLoading ~> ~isBoardLoading

\* A load has failed and the selector takes a new choice.
C40_UsableAfterFailure ==
  /\ last = "load failed"
  /\ ~isBoardLoading
  /\ ~selectorDisabled
  /\ page = "editor"

====
